---- MODULE Spec2Model ----
(***************************************************************************)
(* Flat price prediction pipeline: the preprocessing pipeline              *)
(* (src/src/preprocessing.py), the model / ensemble trainers               *)
(* (src/src/training.py) and the model loading of the serving layer        *)
(* (src/api_app.py), as state machines.                                    *)
(*                                                                         *)
(* A pandas DataFrame is a record [cols, rows, index]: the ordered column  *)
(* list, one function column -> cell per row, and the row labels.  A cell  *)
(* is a record [k, n, d, s]: an exact rational n/d (k = "num"), a missing  *)
(* value (k = "nan"), an infinity (k = "inf", sign n) or a string          *)
(* (k = "str").  Floating point division is modelled by exact rationals.   *)
(***************************************************************************)
EXTENDS FiniteSets, Integers, Sequences, TLC

VARIABLES
    fe_in,          \* FeatureEngineer: the frame handed to the constructor
    fe_out,         \* FeatureEngineer: [done, df] the frame engineer_all returned
    label_encoders, \* DataPreprocessor.label_encoders: column -> classes_
    feature_names,  \* DataPreprocessor.feature_names
    is_fitted,      \* DataPreprocessor.is_fitted
    disk,           \* label_encoders.pkl and feature_names.json in MODELS_DIR
    result,         \* the last DataPreprocessor call: [op, status, input, X]
    stages,         \* the steps the last DataPreprocessor call went through
    fit_rows,       \* the rows of the last fit_transform: {[raw, vec]}
    mt,             \* a stand-alone ModelTrainer: [exists, model_type, model]
    ens,            \* an EnsembleTrainer: [exists, model_types, models, weights, load]
    pipe,           \* a TrainingPipeline: [models_to_train, trained_models, ensemble]
    models_dir,     \* <type>_model.pkl and ensemble_weights.pkl in MODELS_DIR
    api,            \* the api_app process: [state, models, weights, preprocessor]
    ev,             \* a ModelEvaluator: [exists, metrics, actuals, predictions]
    inflight,       \* the requests the API threads are working on, by thread
    call            \* the last training / serving call and how it ended

train_vars == <<mt, ens, pipe, models_dir, api, ev, inflight, call>>
not_fe == <<label_encoders, feature_names, is_fitted, disk, result, stages, fit_rows,
            train_vars>>
not_pre == <<fe_in, fe_out, train_vars>>
not_train == <<fe_in, fe_out, label_encoders, feature_names, is_fitted, disk, result,
               stages, fit_rows>>
vars == <<fe_in, fe_out, label_encoders, feature_names, is_fitted, disk, result,
          stages, fit_rows, mt, ens, pipe, models_dir, api, ev, inflight,
          call>>

----------------------------------------------------------------------------
(* Cells *)

NaN == [k |-> "nan", n |-> 0, d |-> 1, s |-> ""]
Str(x) == [k |-> "str", n |-> 0, d |-> 1, s |-> x]
Inf(sign) == [k |-> "inf", n |-> sign, d |-> 1, s |-> ""]

Abs(i) == IF i < 0 THEN -i ELSE i
Sign(i) == IF i < 0 THEN -1 ELSE 1

RECURSIVE GCD(_, _)
GCD(a, b) == IF b = 0 THEN a ELSE GCD(b, a % b)

\* the rational n/d in lowest terms, d > 0
Num(n, d) ==
    LET g == GCD(Abs(n), Abs(d))
    IN  [k |-> "num", n |-> Sign(d) * (n \div g), d |-> Abs(d) \div g, s |-> ""]

IntC(i) == Num(i, 1)

\* the strings that read as numbers (float(), pd.to_numeric); any other
\* string does not parse
FloatLiterals == [s \in {"65", "2.7"} |-> IF s = "65" THEN Num(65, 1) ELSE Num(27, 10)]

IsNull(c) == c.k = "nan"
IsFinite(c) == c.k = "num"
IsZero(c) == c.k = "num" /\ c.n = 0

\* float arithmetic of pandas / numpy on numeric cells (NaN propagates)
CSub(a, b) ==
    IF a.k = "nan" \/ b.k = "nan" THEN NaN
    ELSE IF a.k = "inf" /\ b.k = "inf" THEN (IF a.n = b.n THEN NaN ELSE a)
    ELSE IF a.k = "inf" THEN a
    ELSE IF b.k = "inf" THEN Inf(-b.n)
    ELSE Num(a.n * b.d - b.n * a.d, a.d * b.d)

CAdd(a, b) ==
    IF a.k = "nan" \/ b.k = "nan" THEN NaN
    ELSE IF a.k = "inf" /\ b.k = "inf" THEN (IF a.n = b.n THEN a ELSE NaN)
    ELSE IF a.k = "inf" THEN a
    ELSE IF b.k = "inf" THEN b
    ELSE Num(a.n * b.d + b.n * a.d, a.d * b.d)

CMul(a, b) ==
    IF a.k = "nan" \/ b.k = "nan" THEN NaN
    ELSE IF a.k = "inf" \/ b.k = "inf"
         THEN (IF IsZero(a) \/ IsZero(b) THEN NaN ELSE Inf(Sign(a.n) * Sign(b.n)))
    ELSE Num(a.n * b.n, a.d * b.d)

\* x / 0 is +-inf and 0 / 0 is NaN: a pandas Series division never raises
CDiv(a, b) ==
    IF a.k = "nan" \/ b.k = "nan" THEN NaN
    ELSE IF a.k = "inf" /\ b.k = "inf" THEN NaN
    ELSE IF a.k = "inf" THEN Inf(a.n * Sign(b.n))
    ELSE IF b.k = "inf" THEN IntC(0)
    ELSE IF b.n = 0 THEN (IF a.n = 0 THEN NaN ELSE Inf(Sign(a.n)))
    ELSE Num(a.n * b.d, a.d * b.n)

\* (series == v).astype(int) and (series > 0).astype(int): NaN compares False
BoolCell(b) == IF b THEN IntC(1) ELSE IntC(0)
CGt0(a) == (a.k = "num" /\ a.n > 0) \/ (a.k = "inf" /\ a.n > 0)

\* Series.replace(0, v)
Replace0(a, v) == IF IsZero(a) THEN v ELSE a

----------------------------------------------------------------------------
(* Frames *)

Range(s) == {s[i] : i \in 1..Len(s)}
HasCol(f, c) == c \in Range(f.cols)

\* an assignment that always appends the column name
SetColAppended(f, c, vals) ==
    [f EXCEPT
        !.cols = Append(@, c),
        !.rows = [i \in 1..Len(@) |->
                    [x \in (DOMAIN @[i]) \cup {c} |->
                        IF x = c THEN vals[i] ELSE @[i][x]]]]

\* df[c] = vals (one value per row): an existing column is overwritten in
\* place, a new one is appended at the end of the column list
SetCol(f, c, vals) ==
    [f EXCEPT
        !.cols = IF HasCol(f, c) THEN @ ELSE Append(@, c),
        !.rows = [i \in 1..Len(@) |->
                    [x \in (DOMAIN @[i]) \cup {c} |->
                        IF x = c THEN vals[i] ELSE @[i][x]]]]

----------------------------------------------------------------------------
(* src/src/config.py *)

CURRENT_YEAR == 2024

CATEGORICAL_FEATURES ==
    <<"gas", "hot_water", "central_heating", "extra_area_type_name", "district_name">>

NUMERICAL_FEATURES ==
    <<"kitchen_area", "bath_area", "other_area", "extra_area", "extra_area_count",
      "year", "ceil_height", "floor_max", "floor", "total_area", "bath_count",
      "rooms_count">>

ORIGINAL_FEATURES ==
    <<"kitchen_area", "bath_area", "other_area", "gas", "hot_water",
      "central_heating", "extra_area", "extra_area_count", "year", "ceil_height",
      "floor_max", "floor", "total_area", "bath_count", "extra_area_type_name",
      "district_name", "rooms_count">>

----------------------------------------------------------------------------
(* FeatureEngineer, with the default FEATURE_ENGINEERING_CONFIG (every      *)
(* feature group enabled)                                                   *)

create_building_age_features(f) ==
    IF HasCol(f, "year")
    THEN LET a == SetCol(f, "building_age",
          [k \in 1..Len(f.rows) |->
              CSub(IntC(CURRENT_YEAR), f.rows[k]["year"])])
         IN  SetCol(a, "building_age_squared",
               [k \in 1..Len(a.rows) |->
                   CMul(a.rows[k]["building_age"], a.rows[k]["building_age"])])
    ELSE f

\* total_area_safe = total_area.replace(0, np.nan); rooms_safe = rooms_count.replace(0, 1)
create_area_ratio_features(f) ==
    IF HasCol(f, "total_area")
    THEN LET f1 == IF HasCol(f, "kitchen_area")
                   THEN SetCol(f, "kitchen_ratio",
                         [k \in 1..Len(f.rows) |->
                             CDiv(f.rows[k]["kitchen_area"], Replace0(f.rows[k]["total_area"], NaN))])
                   ELSE f
             f2 == IF HasCol(f1, "bath_area")
                   THEN SetCol(f1, "bath_ratio",
                         [k \in 1..Len(f1.rows) |->
                             CDiv(f1.rows[k]["bath_area"], Replace0(f1.rows[k]["total_area"], NaN))])
                   ELSE f1
             f3 == IF HasCol(f2, "other_area")
                   THEN LET l == SetCol(f2, "living_area",
                         [k \in 1..Len(f2.rows) |->
                             f2.rows[k]["other_area"]])
                        IN  SetCol(l, "living_ratio",
                              [k \in 1..Len(l.rows) |->
                                  CDiv(l.rows[k]["other_area"], Replace0(l.rows[k]["total_area"], NaN))])
                   ELSE f2
         IN  IF HasCol(f3, "rooms_count")
             THEN SetCol(f3, "area_per_room",
                   [k \in 1..Len(f3.rows) |->
                       CDiv(f3.rows[k]["total_area"], Replace0(f3.rows[k]["rooms_count"], IntC(1)))])
             ELSE f3
    ELSE f

create_floor_features(f) ==
    IF HasCol(f, "floor") /\ HasCol(f, "floor_max")
    THEN LET f1 == SetCol(f, "is_first_floor",
          [k \in 1..Len(f.rows) |->
              BoolCell(f.rows[k]["floor"] = IntC(1))])
             f2 == SetCol(f1, "is_last_floor",
                   [k \in 1..Len(f1.rows) |->
                       BoolCell(~IsNull(f1.rows[k]["floor"]) /\ f1.rows[k]["floor"] = f1.rows[k]["floor_max"])])
         IN  SetCol(f2, "floor_ratio",
               [k \in 1..Len(f2.rows) |->
                   CDiv(f2.rows[k]["floor"], Replace0(f2.rows[k]["floor_max"], IntC(1)))])
    ELSE f

create_amenities_score(f) ==
    IF HasCol(f, "gas") /\ HasCol(f, "hot_water") /\ HasCol(f, "central_heating")
    THEN SetCol(f, "amenities_score",
          [k \in 1..Len(f.rows) |->
              CAdd(CAdd(BoolCell(f.rows[k]["gas"] = Str("Yes")),
                                BoolCell(f.rows[k]["hot_water"] = Str("Yes"))),
                           BoolCell(f.rows[k]["central_heating"] = Str("Yes")))])
    ELSE f

create_volume_feature(f) ==
    IF HasCol(f, "total_area") /\ HasCol(f, "ceil_height")
    THEN SetCol(f, "volume",
          [k \in 1..Len(f.rows) |->
              CMul(f.rows[k]["total_area"], f.rows[k]["ceil_height"])])
    ELSE f

create_extra_area_features(f) ==
    IF HasCol(f, "extra_area")
    THEN LET f1 == SetCol(f, "has_extra_area",
          [k \in 1..Len(f.rows) |->
              BoolCell(CGt0(f.rows[k]["extra_area"]))])
         IN  IF HasCol(f1, "total_area")
             THEN SetCol(f1, "extra_area_ratio",
                   [k \in 1..Len(f1.rows) |->
                       CDiv(f1.rows[k]["extra_area"], Replace0(f1.rows[k]["total_area"], IntC(1)))])
             ELSE f1
    ELSE f

create_interaction_features(f) ==
    LET f1 == IF HasCol(f, "rooms_count") /\ HasCol(f, "floor")
              THEN SetCol(f, "rooms_floor_interaction",
                    [k \in 1..Len(f.rows) |->
                        CMul(f.rows[k]["rooms_count"], f.rows[k]["floor"])])
              ELSE f
    IN  IF HasCol(f1, "total_area") /\ HasCol(f1, "building_age")
        THEN SetCol(f1, "area_age_interaction",
              [k \in 1..Len(f1.rows) |->
                  CMul(f1.rows[k]["total_area"], f1.rows[k]["building_age"])])
        ELSE f1

engineer_all(f) ==
    create_interaction_features(
      create_extra_area_features(
        create_volume_feature(
          create_amenities_score(
            create_floor_features(
              create_area_ratio_features(
                create_building_age_features(f)))))))

\* the stand-alone engineer_features(df) of the example scripts, on a frame
\* that has every raw column (a missing one is a KeyError)
engineer_features(f) ==
    LET f1 == SetCol(f, "building_age",
                [k \in 1..Len(f.rows) |-> CSub(IntC(2024), f.rows[k]["year"])])
        f2 == SetCol(f1, "building_age_squared",
                [k \in 1..Len(f1.rows) |->
                    CMul(f1.rows[k]["building_age"], f1.rows[k]["building_age"])])
        f3 == SetCol(f2, "area_per_room",
                [k \in 1..Len(f2.rows) |->
                    CDiv(f2.rows[k]["total_area"], CAdd(f2.rows[k]["rooms_count"], IntC(1)))])
        f4 == SetCol(f3, "kitchen_ratio",
                [k \in 1..Len(f3.rows) |->
                    CDiv(f3.rows[k]["kitchen_area"], f3.rows[k]["total_area"])])
        f5 == SetCol(f4, "bath_ratio",
                [k \in 1..Len(f4.rows) |->
                    CDiv(f4.rows[k]["bath_area"], f4.rows[k]["total_area"])])
        f6 == SetCol(f5, "living_area",
                [k \in 1..Len(f5.rows) |-> f5.rows[k]["other_area"]])
        f7 == SetCol(f6, "is_first_floor",
                [k \in 1..Len(f6.rows) |-> BoolCell(f6.rows[k]["floor"] = IntC(1))])
        f8 == SetCol(f7, "is_last_floor",
                [k \in 1..Len(f7.rows) |->
                    BoolCell(~IsNull(f7.rows[k]["floor"])
                             /\ f7.rows[k]["floor"] = f7.rows[k]["floor_max"])])
        f9 == SetCol(f8, "floor_ratio",
                [k \in 1..Len(f8.rows) |->
                    CDiv(f8.rows[k]["floor"], f8.rows[k]["floor_max"])])
        f10 == SetCol(f9, "amenities_score",
                [k \in 1..Len(f9.rows) |->
                    CAdd(CAdd(BoolCell(f9.rows[k]["gas"] = Str("Yes")),
                              BoolCell(f9.rows[k]["hot_water"] = Str("Yes"))),
                         BoolCell(f9.rows[k]["central_heating"] = Str("Yes")))])
        f11 == SetCol(f10, "volume",
                [k \in 1..Len(f10.rows) |->
                    CMul(f10.rows[k]["total_area"], f10.rows[k]["ceil_height"])])
        f12 == SetCol(f11, "has_extra_area",
                [k \in 1..Len(f11.rows) |-> BoolCell(CGt0(f11.rows[k]["extra_area"]))])
        f13 == SetCol(f12, "extra_area_ratio",
                [k \in 1..Len(f12.rows) |->
                    CDiv(f12.rows[k]["extra_area"], CAdd(f12.rows[k]["total_area"], IntC(1)))])
    IN  SetCol(f13, "rooms_floor_interaction",
           [k \in 1..Len(f13.rows) |->
               CMul(f13.rows[k]["rooms_count"], f13.rows[k]["floor"])])

\* the columns engineer_all derives
DerivedColumns ==
    {"building_age", "building_age_squared", "kitchen_ratio", "bath_ratio",
     "living_area", "living_ratio", "area_per_room", "is_first_floor",
     "is_last_floor", "floor_ratio", "amenities_score", "volume",
     "has_extra_area", "extra_area_ratio", "rooms_floor_interaction",
     "area_age_interaction"}

----------------------------------------------------------------------------
(* DataCleaner, with MISSING_VALUE_STRATEGY = {numerical: median,           *)
(* categorical: mode} and REMOVE_OUTLIERS = False                           *)

\* Python orders str by code point: upper case before lower case
StrOrder ==
    <<"Atlantis", "Centralnyj", "Nevskij", "No", "Yes", "balcony", "loggia", "nan">>
StrRank(x) == CHOOSE i \in 1..Len(StrOrder) : StrOrder[i] = x

CLess(a, b) == a.n * b.d < b.n * a.d

RECURSIVE InsertCell(_, _)
InsertCell(c, s) ==
    IF s = <<>> THEN <<c>>
    ELSE IF CLess(Head(s), c) THEN <<Head(s)>> \o InsertCell(c, Tail(s))
    ELSE <<c>> \o s

RECURSIVE SortCells(_)
SortCells(s) == IF s = <<>> THEN <<>> ELSE InsertCell(Head(s), SortCells(Tail(s)))

ColValues(f, c) == [i \in 1..Len(f.rows) |-> f.rows[i][c]]
NotNull(c) == ~IsNull(c)

\* Series.median(): NaN is skipped; NaN when nothing is left
Median(vals) ==
    LET v == SortCells(SelectSeq(vals, NotNull))
        n == Len(v)
    IN  IF n = 0 THEN NaN
        ELSE IF n % 2 = 1 THEN v[(n + 1) \div 2]
        ELSE CDiv(CAdd(v[n \div 2], v[n \div 2 + 1]), IntC(2))

\* Series.mode()[0]: the most frequent value, the smallest one on a tie
Count(vals, x) == Cardinality({i \in 1..Len(vals) : vals[i] = x})
Mode(vals) ==
    LET v == SelectSeq(vals, NotNull)
        best == {x \in Range(v) : \A y \in Range(v) : Count(v, y) <= Count(v, x)}
    IN  CHOOSE x \in best : \A y \in best : StrRank(x.s) <= StrRank(y.s)

HasNull(f, c) == \E i \in 1..Len(f.rows) : IsNull(f.rows[i][c])
HasStr(f, c) == \E i \in 1..Len(f.rows) : f.rows[i][c].k = "str"
AllNull(f, c) == \A i \in 1..Len(f.rows) : IsNull(f.rows[i][c])

\* what the fill of column c raises: the median of an object column holding
\* a string is a TypeError, mode()[0] of an all-missing column a KeyError
FillError(f, c) ==
    IF ~HasNull(f, c) THEN "ok"
    ELSE IF c \in Range(NUMERICAL_FEATURES) /\ HasStr(f, c) THEN "TypeError"
    ELSE IF c \in Range(CATEGORICAL_FEATURES) /\ AllNull(f, c) THEN "KeyError"
    ELSE "ok"

FillValue(f, c) ==
    IF c \in Range(NUMERICAL_FEATURES) THEN Median(ColValues(f, c))
    ELSE Mode(ColValues(f, c))

\* the statistic is computed from the frame being cleaned; the chained
\* df[col].fillna(..., inplace=True) is taken to write through to df, as it
\* does in pandas without copy-on-write
handle_missing_values(f) ==
    LET bad == {i \in 1..Len(f.cols) : FillError(f, f.cols[i]) # "ok"}
        fillable(c) == c \in Range(NUMERICAL_FEATURES) \cup Range(CATEGORICAL_FEATURES)
    IN  IF bad # {}
        THEN [status |-> FillError(f, f.cols[CHOOSE i \in bad : \A j \in bad : i <= j]),
              df |-> f]
        ELSE [status |-> "ok",
              df |-> [f EXCEPT !.rows =
                        [i \in 1..Len(@) |->
                            [c \in DOMAIN @[i] |->
                                IF IsNull(@[i][c]) /\ fillable(c)
                                THEN FillValue(f, c) ELSE @[i][c]]]]]

\* drop_duplicates keeps the first of equal rows and the labels of the kept rows
remove_duplicates(f) ==
    LET n == Len(f.rows)
        first(i) == \A j \in 1..(i - 1) : f.rows[j] # f.rows[i]
        kept == SelectSeq([i \in 1..n |-> i], first)
    IN  [f EXCEPT !.rows = [j \in 1..Len(kept) |-> f.rows[kept[j]]],
                  !.index = [j \in 1..Len(kept) |-> f.index[kept[j]]]]

\* REMOVE_OUTLIERS is False: the method returns at once
handle_outliers(f) == f

\* pd.to_numeric(errors='coerce') on the numeric columns, astype(str) on the
\* categorical ones
fix_data_types(f) ==
    [f EXCEPT !.rows =
        [i \in 1..Len(@) |->
            [c \in DOMAIN @[i] |->
                IF c \in Range(NUMERICAL_FEATURES)
                THEN (IF @[i][c].k # "str" THEN @[i][c]
                      ELSE IF @[i][c].s \in DOMAIN FloatLiterals
                      THEN FloatLiterals[@[i][c].s] ELSE NaN)
                ELSE IF c \in Range(CATEGORICAL_FEATURES)
                THEN (IF @[i][c].k = "nan" THEN Str("nan")
                      ELSE IF @[i][c].k = "num" THEN Str(ToString(@[i][c].n))
                      ELSE @[i][c])
                ELSE @[i][c]]]]

clean(f) ==
    LET m == handle_missing_values(f)
    IN  IF m.status # "ok" THEN m
        ELSE [status |-> "ok",
              df |-> fix_data_types(handle_outliers(remove_duplicates(m.df)))]

----------------------------------------------------------------------------
(* DataPreprocessor: label encoding and column alignment                    *)

RECURSIVE SortStrs(_)
SortStrs(S) ==
    IF S = {} THEN <<>>
    ELSE LET m == CHOOSE x \in S : \A y \in S : StrRank(x) <= StrRank(y)
         IN  <<m>> \o SortStrs(S \ {m})

\* LabelEncoder.fit: classes_ is the sorted list of the distinct values
FitClasses(f, c) == SortStrs({f.rows[i][c].s : i \in 1..Len(f.rows)})

\* LabelEncoder.transform of a value of classes_: its position, from 0
LabelCode(classes, x) == (CHOOSE i \in 1..Len(classes) : classes[i] = x) - 1

unseen_to_last(classes, x) == IF x \in Range(classes) THEN x ELSE classes[Len(classes)]

\* lambda x: x if x in le.classes_ else le.classes_[0]
unseen_to_first(classes, x) == IF x \in Range(classes) THEN x ELSE classes[1]

CatCols(f) == {c \in Range(CATEGORICAL_FEATURES) : HasCol(f, c)}

\* _encode_categorical(df, fit): [status, df, encoders]
encode_categorical(f, encoders, fit) ==
    IF fit
    THEN LET enc == [c \in (DOMAIN encoders) \cup CatCols(f) |->
                        IF c \in CatCols(f) THEN FitClasses(f, c) ELSE encoders[c]]
         IN  [status |-> "ok",
              encoders |-> enc,
              df |-> [f EXCEPT !.rows =
                        [i \in 1..Len(@) |->
                            [c \in DOMAIN @[i] |->
                                IF c \in CatCols(f)
                                THEN IntC(LabelCode(enc[c], @[i][c].s))
                                ELSE @[i][c]]]]]
    ELSE LET known == CatCols(f) \cap DOMAIN encoders
         IN  IF f.rows # <<>> /\ \E c \in known : encoders[c] = <<>>
             THEN [status |-> "IndexError", encoders |-> encoders, df |-> f]
             ELSE [status |-> "ok",
                   encoders |-> encoders,
                   df |-> [f EXCEPT !.rows =
                             [i \in 1..Len(@) |->
                                 [c \in DOMAIN @[i] |->
                                     IF c \in known
                                     THEN IntC(LabelCode(encoders[c],
                                                unseen_to_first(encoders[c], @[i][c].s)))
                                     ELSE @[i][c]]]]]

\* df.drop(columns = the columns of S the frame has)
DropCols(f, S) ==
    [f EXCEPT !.cols = SelectSeq(@, LAMBDA c : c \notin S),
              !.rows = [i \in 1..Len(@) |-> [c \in (DOMAIN @[i]) \ S |-> @[i][c]]]]

\* the frame after the missing features were added and the extra ones dropped,
\* before X = X[self.feature_names]
reconciled(X, names) ==
    LET missing == SelectSeq(names, LAMBDA c : ~HasCol(X, c))
        kept == SelectSeq(X.cols, LAMBDA c : c \in Range(names))
    IN  [X EXCEPT !.cols = kept \o missing,
                  !.rows = [i \in 1..Len(@) |->
                              [c \in Range(names) |->
                                  IF c \in DOMAIN @[i] THEN @[i][c] ELSE IntC(0)]]]

align_without_reorder(X, names) == reconciled(X, names)

\* transform, lines 517-530: add the missing features with 0, drop the extra
\* ones, then X = X[self.feature_names]
align(X, names) == [reconciled(X, names) EXCEPT !.cols = names]

----------------------------------------------------------------------------
(* src/src/training.py: ModelTrainer                                        *)

KnownTypes == {"xgboost", "lightgbm", "catboost"}

Put(f, key, v) == [x \in DOMAIN f \cup {key} |-> IF x = key THEN v ELSE f[x]]

\* self.model is None, an estimator build_model made ("built"), one that fit
\* completed on ("fitted") or one joblib.load returned ("loaded")
NoTrainer == [exists |-> FALSE, model_type |-> "", model |-> "None"]

\* ModelTrainer(model_type): any string is accepted
ModelTrainer(model_type) == [exists |-> TRUE, model_type |-> model_type, model |-> "None"]

build_model(self) ==
    IF self.model_type \in KnownTypes
    THEN [status |-> "ok", self |-> [self EXCEPT !.model = "built"]]
    ELSE [status |-> "ValueError: Unknown model type", self |-> self]

EARLY_STOPPING_ROUNDS == 50

\* the early stopping patience the estimator is constructed with:
\* XGBOOST_PARAMS carries early_stopping_rounds, the other two do not
constructor_patience(model_type) ==
    IF model_type = "xgboost" THEN EARLY_STOPPING_ROUNDS ELSE 0

\* the fit call train() makes: the patience in force (0: none), whether an
\* evaluation set is passed, and whether fit refuses to run (an estimator with
\* a patience and no evaluation set raises)
fit_settings(model_type, has_X_val, has_y_val) ==
    LET early == has_X_val /\ has_y_val
        patience == IF early THEN EARLY_STOPPING_ROUNDS ELSE constructor_patience(model_type)
    IN  [patience |-> patience, eval_set |-> early, raises |-> patience > 0 /\ ~early]

\* train(X_train, y_train, X_val, y_val); fit_raises: the estimator's fit raises
train(self, fit_raises) ==
    LET b == IF self.model = "None" THEN build_model(self)
             ELSE [status |-> "ok", self |-> self]
    IN  IF b.status # "ok" THEN b
        ELSE IF fit_raises THEN [status |-> "FitError", self |-> b.self]
        ELSE [status |-> "ok", self |-> [b.self EXCEPT !.model = "fitted"]]

\* cross_validate(X, y): cross_val_score fits clones of self.model, which is
\* built when it was None and is otherwise left as it was
cross_validate(self, cv_raises) ==
    LET b == IF self.model = "None" THEN build_model(self)
             ELSE [status |-> "ok", self |-> self]
    IN  IF b.status # "ok" THEN b
        ELSE IF cv_raises THEN [status |-> "FitError", self |-> b.self]
        ELSE b

\* predict(X): an estimator that was built but never fitted raises its own error
ModelTrainer_predict(self) ==
    IF self.model = "None" THEN "ValueError: Model not trained"
    ELSE IF self.model = "built" THEN "NotFittedError"
    ELSE "ok"

\* load(path): joblib.load raises when the file is absent
ModelTrainer_load(self, dir) ==
    IF self.model_type \in dir.members
    THEN [status |-> "ok", self |-> [self EXCEPT !.model = "loaded"]]
    ELSE [status |-> "FileNotFoundError", self |-> self]

----------------------------------------------------------------------------
(* src/src/training.py: EnsembleTrainer                                     *)

NoModels == [t \in {} |-> NoTrainer]
NoneWeights == [defined |-> FALSE, of |-> [t \in {} |-> IntC(0)]]
Weights(f) == [defined |-> TRUE, of |-> f]

\* {mt: 1/len(model_types) for mt in model_types}
EqualWeights(model_types) ==
    Weights([t \in Range(model_types) |-> Num(1, Len(model_types))])

NoEnsemble ==
    [exists |-> FALSE, model_types |-> <<>>, models |-> NoModels,
     weights |-> NoneWeights, load |-> "never"]

\* EnsembleTrainer(model_types); load is the outcome of the last load_all
EnsembleTrainer(model_types) ==
    [exists |-> TRUE, model_types |-> model_types, models |-> NoModels,
     weights |-> NoneWeights, load |-> "never"]

\* the loop of train_all from member i on; bad: the members whose fit raises
RECURSIVE TrainMembers(_, _, _, _)
TrainMembers(model_types, i, models, bad) ==
    IF i > Len(model_types) THEN [status |-> "ok", models |-> models, raised |-> {}]
    ELSE LET t == train(ModelTrainer(model_types[i]), model_types[i] \in bad)
         IN  IF t.status # "ok"
             THEN [status |-> t.status, models |-> models, raised |-> {model_types[i]}]
             ELSE TrainMembers(model_types, i + 1, Put(models, model_types[i], t.self), bad)

train_all(self, bad) ==
    LET r == TrainMembers(self.model_types, 1, self.models, bad)
    IN  IF r.status # "ok"
        THEN [status |-> r.status, raised |-> r.raised,
              self |-> [self EXCEPT !.models = r.models]]
        ELSE [status |-> "ok", raised |-> {},
              self |-> [self EXCEPT !.models = r.models,
                                    !.weights = EqualWeights(self.model_types),
                                    !.load = "never"]]

\* what a fitted or loaded member predicts for the two validation rows and for
\* the row being served
ValPred(t) ==
    IF t = "xgboost" THEN <<10, 20>>
    ELSE IF t = "lightgbm" THEN <<12, 18>>
    ELSE <<8, 24>>
ServePred(t) == IF t = "xgboost" THEN 100 ELSE IF t = "lightgbm" THEN 110 ELSE 90

\* the sum of the cells f[x] for x in S
RECURSIVE SumOver(_, _)
SumOver(f, S) ==
    IF S = {} THEN IntC(0)
    ELSE LET x == CHOOSE y \in S : TRUE IN CAdd(f[x], SumOver(f, S \ {x}))

\* _weighted_predict(predictions, weights) at one row; P[t] is predictions[t]
weighted_predict(members, P, w) ==
    IF members = {} THEN [status |-> "StopIteration", value |-> NaN]
    ELSE IF ~w.defined THEN [status |-> "TypeError", value |-> NaN]
    ELSE IF ~(members \subseteq DOMAIN w.of) THEN [status |-> "KeyError", value |-> NaN]
    ELSE [status |-> "ok",
          value |-> SumOver([t \in members |-> CMul(w.of[t], IntC(P[t]))], members)]

\* np.arange(0.2, 0.8, 0.1) in tenths: the length is ceil((0.8 - 0.2) / 0.1)
\* computed in floating point, which is 7, so the last element is 0.8
WeightGrid == <<2, 3, 4, 5, 6, 7, 8>>

\* a grid search that evaluates every pair of the grid, whatever w3 is
SkipNothing(w1, w2) == FALSE

\* `if w3 < 0.1 or w3 > 0.8: continue` with w3 = 1 - w1 - w2 in floating
\* point: a w3 that is 0.1 on paper comes out just below 0.1 and is skipped
SkipW3(w1, w2) == (10 - w1 - w2) <= 1 \/ (10 - w1 - w2) > 8

\* the combinations the two nested loops evaluate, in iteration order
RECURSIVE GridFrom(_, _)
GridFrom(i, j) ==
    IF i > Len(WeightGrid) THEN <<>>
    ELSE IF j > Len(WeightGrid) THEN GridFrom(i + 1, 1)
    ELSE IF SkipW3(WeightGrid[i], WeightGrid[j]) THEN GridFrom(i, j + 1)
    ELSE <<<<WeightGrid[i], WeightGrid[j], 10 - WeightGrid[i] - WeightGrid[j]>>>>
             \o GridFrom(i, j + 1)
GridCombos == GridFrom(1, 1)

\* dict(zip(self.model_types, [w1, w2, w3]))
ZipWeights(model_types, c) ==
    Weights([t \in Range(model_types) |->
                Num(c[CHOOSE i \in 1..Len(model_types) : model_types[i] = t], 10)])

\* sum of squared residuals of the weighted prediction on the validation rows
SSRes(members, w, y_val) ==
    LET r(i) == CSub(IntC(y_val[i]),
                     weighted_predict(members, [t \in members |-> ValPred(t)[i]], w).value)
    IN  SumOver([i \in 1..Len(y_val) |-> CMul(r(i), r(i))], 1..Len(y_val))

SSTot(y_val) ==
    LET rows == 1..Len(y_val)
        mean == CDiv(SumOver([i \in rows |-> IntC(y_val[i])], rows), IntC(Len(y_val)))
    IN  SumOver([i \in rows |-> CMul(CSub(IntC(y_val[i]), mean),
                                      CSub(IntC(y_val[i]), mean))], rows)

\* sklearn.metrics.r2_score for a target that is not constant
r2_score(members, w, y_val) ==
    CSub(IntC(1), CDiv(SSRes(members, w, y_val), SSTot(y_val)))

\* `score > best_score or ties`: a comparison that also replaces on a tie
ImprovesOrTies(score, best) ==
    best.index = 0 \/ ~CLess(score, best.score)

\* `if score > best_score`, best_score starting at -inf
Improves(score, best) ==
    best.index = 0 \/ CLess(best.score, score)

\* the two nested loops from combination i on; best is [score, index], index 0
\* while best_weights is None
RECURSIVE GridSearch(_, _, _, _, _)
GridSearch(model_types, members, y_val, i, best) ==
    IF i > Len(GridCombos) THEN best
    ELSE GridSearch(model_types, members, y_val, i + 1,
             IF Improves(r2_score(members, ZipWeights(model_types, GridCombos[i]), y_val),
                         best)
             THEN [score |-> r2_score(members, ZipWeights(model_types, GridCombos[i]),
                                      y_val),
                   index |-> i]
             ELSE best)

\* best_weights when the loops end
BestCombo(model_types, members, y_val) ==
    ZipWeights(model_types,
               GridCombos[GridSearch(model_types, members, y_val, 1,
                                     [score |-> Inf(-1), index |-> 0]).index])

\* the targets of the two validation rows; for the last two targets two
\* combinations of the grid reach the same, highest R2
YVals == {<<10, 20>>, <<8, 24>>, <<10, 21>>, <<11, 21>>}

\* optimize_weights(X_val, y_val, method)
optimize_weights(self, y_val, method) ==
    LET members == DOMAIN self.models
        unready == {t \in members : ModelTrainer_predict(self.models[t]) # "ok"}
    IN  IF method = "equal"
        THEN [status |-> "ok",
              self |-> [self EXCEPT !.weights = EqualWeights(self.model_types)]]
        ELSE IF unready # {}
        THEN [status |-> ModelTrainer_predict(self.models[CHOOSE t \in unready : TRUE]),
              self |-> self]
        ELSE IF Len(self.model_types) # 3 THEN [status |-> "ok", self |-> self]
        ELSE IF members = {} THEN [status |-> "StopIteration", self |-> self]
        ELSE IF ~(members \subseteq Range(self.model_types))
        THEN [status |-> "KeyError", self |-> self]
        ELSE [status |-> "ok",
              self |-> [self EXCEPT
                           !.weights = BestCombo(self.model_types, members, y_val)]]

\* predict(X) for the row being served
EnsembleTrainer_predict(self) ==
    LET members == DOMAIN self.models
        unready == {t \in members : ModelTrainer_predict(self.models[t]) # "ok"}
    IN  IF members = {} THEN [status |-> "ValueError: No models trained", value |-> NaN]
        ELSE IF unready # {}
        THEN [status |-> ModelTrainer_predict(self.models[CHOOSE t \in unready : TRUE]),
              value |-> NaN]
        ELSE weighted_predict(members, [t \in members |-> ServePred(t)], self.weights)

\* the models directory: the member artifacts present and the weights artifact
EmptyDir == [members |-> {}, weights |-> [present |-> FALSE, value |-> NoneWeights]]

\* save_all(save_dir): one file per entry of self.models, then self.weights
\* whatever it is
save_all(self, dir) ==
    [members |-> dir.members \cup DOMAIN self.models,
     weights |-> [present |-> TRUE, value |-> self.weights]]

\* the loop of load_all from member i on: it stops at the first absent file
RECURSIVE LoadMembers(_, _, _, _)
LoadMembers(model_types, i, models, dir) ==
    IF i > Len(model_types) THEN [status |-> "ok", models |-> models]
    ELSE LET l == ModelTrainer_load(ModelTrainer(model_types[i]), dir)
         IN  IF l.status # "ok" THEN [status |-> l.status, models |-> models]
             ELSE LoadMembers(model_types, i + 1, Put(models, model_types[i], l.self), dir)

load_all(self, dir) ==
    LET r == LoadMembers(self.model_types, 1, self.models, dir)
    IN  IF r.status # "ok"
        THEN [status |-> r.status,
              self |-> [self EXCEPT !.models = r.models, !.load = "failed"]]
        ELSE IF ~dir.weights.present
        THEN [status |-> "FileNotFoundError",
              self |-> [self EXCEPT !.models = r.models, !.load = "failed"]]
        ELSE [status |-> "ok",
              self |-> [self EXCEPT !.models = r.models,
                                    !.weights = dir.weights.value,
                                    !.load = "complete"]]

----------------------------------------------------------------------------
(* src/src/training.py: TrainingPipeline                                    *)

NoPipeline ==
    [exists |-> FALSE, models_to_train |-> <<>>, trained_models |-> NoModels,
     ensemble |-> NoEnsemble]

TrainingPipeline(models_to_train) ==
    [exists |-> TRUE, models_to_train |-> models_to_train, trained_models |-> NoModels,
     ensemble |-> NoEnsemble]

\* the first loop of train_all_models from entry i on: a member whose training
\* raises is logged and skipped
RECURSIVE TrainEach(_, _, _, _)
TrainEach(models_to_train, i, trained, bad) ==
    IF i > Len(models_to_train) THEN [trained |-> trained, raised |-> {}]
    ELSE IF models_to_train[i] = "ensemble"
    THEN TrainEach(models_to_train, i + 1, trained, bad)
    ELSE LET t == train(ModelTrainer(models_to_train[i]), models_to_train[i] \in bad)
             rest == TrainEach(models_to_train, i + 1,
                               IF t.status = "ok"
                               THEN Put(trained, models_to_train[i], t.self)
                               ELSE trained,
                               bad)
         IN  [trained |-> rest.trained,
              raised |-> rest.raised \cup
                             (IF t.status = "ok" THEN {} ELSE {models_to_train[i]})]

\* train_all_models(X_train, y_train, X_val, y_val); has_val: X_val and y_val
\* are given
train_all_models(self, bad, has_val, y_val) ==
    LET each == TrainEach(self.models_to_train, 1, self.trained_models, bad)
        available == SelectSeq(<<"xgboost", "lightgbm", "catboost">>,
                               LAMBDA m : m \in DOMAIN each.trained)
        assembled == [EnsembleTrainer(available) EXCEPT
                         !.models = [m \in Range(available) |-> each.trained[m]]]
        weighted == IF has_val
                    THEN optimize_weights(assembled, y_val, "grid_search").self
                    ELSE [assembled EXCEPT !.weights = EqualWeights(available)]
    IN  [raised |-> each.raised,
         self |-> [self EXCEPT
                      !.trained_models = each.trained,
                      !.ensemble = IF "ensemble" \in Range(self.models_to_train)
                                      /\ Len(available) >= 2
                                   THEN weighted ELSE self.ensemble]]

\* save_all_models(MODELS_DIR): one file per trained member, and save_all for
\* the ensemble entry
save_all_models(self, dir) ==
    LET members == [dir EXCEPT !.members = @ \cup DOMAIN self.trained_models]
    IN  IF self.ensemble.exists THEN save_all(self.ensemble, members) ELSE members

----------------------------------------------------------------------------
(* src/api_app.py: the module globals models and preprocessor               *)

ApiDown == [state |-> "down", loaded |-> FALSE, models |-> {}, weights |-> NoneWeights,
            preprocessor |-> "None"]

\* regressor: the call reached the predict method of an underlying regressor
NoCall ==
    [op |-> "none", status |-> "ok", raised |-> {}, missing |-> {}, value |-> NaN,
     regressor |-> FALSE, http |-> 0, reached |-> FALSE, request |-> <<>>,
     results |-> <<>>, summary |-> [total |-> 0, successful |-> 0, failed |-> 0]]

\* has: the keys of self.metrics; a key not in `has` holds no value
NoMetrics ==
    [has |-> {}, within_5_pct |-> NaN, within_10_pct |-> NaN,
     mape |-> [regular |-> NaN, over_eps |-> NaN]]
NoEvaluator == [exists |-> FALSE, metrics |-> NoMetrics, actuals |-> <<>>, predictions |-> <<>>]

\* a request thread: caller is the frame object the caller handed to
\* transform, df the frame the pipeline works on
MaxRequests == 2
IdleThread ==
    [pc |-> "idle", caller |-> [cols |-> <<>>, rows |-> <<>>, index |-> <<>>],
     df |-> [cols |-> <<>>, rows |-> <<>>, index |-> <<>>], status |-> "ok"]
NoRequests == [t \in 1..MaxRequests |-> IdleThread]

TrainIdle ==
    /\ mt = NoTrainer
    /\ ens = NoEnsemble
    /\ pipe = NoPipeline
    /\ models_dir = EmptyDir
    /\ api = ApiDown
    /\ ev = NoEvaluator
    /\ inflight = NoRequests
    /\ call = NoCall

----------------------------------------------------------------------------
(* DataPreprocessor: the pipeline object and its persisted artifacts        *)

NoFrame == [cols |-> <<>>, rows |-> <<>>, index |-> <<>>]
NoEncoders == [c \in {} |-> <<>>]

TARGET_COLUMN == "price"
FitDropped == {"index", "Unnamed: 0"}
TransformDropped == {"index", "Unnamed: 0", "price"}

\* the raw values of a record: everything but the target and the row number
RawKey(r) == [c \in (DOMAIN r) \ TransformDropped |-> r[c]]

\* the rows of X with the raw input rows they come from (by row label)
RowPairs(input, X) ==
    {[raw |-> RawKey(input.rows[X.index[j] + 1]), vec |-> X.rows[j]] :
        j \in 1..Len(X.rows)}

NoArtifacts == [enc |-> FALSE, encoders |-> NoEncoders, fn |-> FALSE, features |-> <<>>]

\* a new DataPreprocessor, before any call
PreFresh ==
    /\ label_encoders = NoEncoders
    /\ feature_names = <<>>
    /\ is_fitted = FALSE
    /\ result = [op |-> "init", status |-> "ok", input |-> NoFrame, X |-> NoFrame]
    /\ stages = <<>>
    /\ fit_rows = {}

PreIdle == PreFresh /\ disk = NoArtifacts

\* DataPreprocessor()
PreNew ==
    /\ result.op # "init"
    /\ label_encoders' = NoEncoders
    /\ feature_names' = <<>>
    /\ is_fitted' = FALSE
    /\ result' = [op |-> "init", status |-> "ok", input |-> NoFrame, X |-> NoFrame]
    /\ stages' = <<>>
    /\ fit_rows' = {}
    /\ UNCHANGED <<disk, not_pre>>

\* fit_transform(df, target_col = 'price'); the DataValidator pass only logs
FitTransformOf(b) ==
    LET c == clean(b)
        e == encode_categorical(engineer_all(c.df), label_encoders, TRUE)
        X == DropCols(e.df, {TARGET_COLUMN} \cup FitDropped)
    IN  /\ UNCHANGED <<disk, not_pre>>
        /\ IF c.status # "ok"
           THEN /\ result' = [op |-> "fit_transform", status |-> c.status,
                              input |-> b, X |-> NoFrame]
                /\ stages' = <<"validate", "clean">>
                /\ UNCHANGED <<label_encoders, feature_names, is_fitted, fit_rows>>
           ELSE /\ label_encoders' = e.encoders
                /\ feature_names' = X.cols
                /\ is_fitted' = TRUE
                /\ result' = [op |-> "fit_transform", status |-> "ok", input |-> b, X |-> X]
                /\ stages' = <<"validate", "clean", "engineer", "encode", "freeze">>
                /\ fit_rows' = RowPairs(b, X)

\* transform(df) past the is_fitted check: clean, engineer, encode, align
TransformFitted(b) ==
    LET c == clean(b)
        e == encode_categorical(engineer_all(c.df), label_encoders, FALSE)
        X == align(DropCols(e.df, TransformDropped), feature_names)
    IN  /\ UNCHANGED <<label_encoders, feature_names, is_fitted, fit_rows, disk, not_pre>>
        /\ IF c.status # "ok"
           THEN /\ result' = [op |-> "transform", status |-> c.status,
                              input |-> b, X |-> NoFrame]
                /\ stages' = <<"clean">>
           ELSE IF e.status # "ok"
           THEN /\ result' = [op |-> "transform", status |-> e.status,
                              input |-> b, X |-> NoFrame]
                /\ stages' = <<"clean", "engineer", "encode">>
           ELSE /\ result' = [op |-> "transform", status |-> "ok", input |-> b, X |-> X]
                /\ stages' = <<"clean", "engineer", "encode", "align">>

transform_without_check(b) == TransformFitted(b)

\* transform(df): raises ValueError("Preprocessor not fitted...") first
TransformOf(b) ==
    IF ~is_fitted
    THEN /\ result' = [op |-> "transform", status |-> "NotFittedError",
                       input |-> b, X |-> NoFrame]
         /\ stages' = <<>>
         /\ UNCHANGED <<label_encoders, feature_names, is_fitted, fit_rows, disk, not_pre>>
    ELSE TransformFitted(b)

\* save_encoders(MODELS_DIR / 'label_encoders.pkl')
SaveEncoders ==
    /\ disk' = [disk EXCEPT !.enc = TRUE, !.encoders = label_encoders]
    /\ result' = [op |-> "save_encoders", status |-> "ok", input |-> NoFrame, X |-> NoFrame]
    /\ stages' = <<>>
    /\ UNCHANGED <<label_encoders, feature_names, is_fitted, fit_rows, not_pre>>

\* save_json({'features': preprocessor.get_feature_names()}, 'feature_names.json'),
\* the step of the training scripts that follows fit_transform and save_encoders
SaveFeatureNames ==
    /\ is_fitted
    /\ disk' = [disk EXCEPT !.fn = TRUE, !.features = feature_names]
    /\ result' = [op |-> "save_feature_names", status |-> "ok",
                  input |-> NoFrame, X |-> NoFrame]
    /\ stages' = <<>>
    /\ UNCHANGED <<label_encoders, feature_names, is_fitted, fit_rows, not_pre>>

\* load_encoders(MODELS_DIR / 'label_encoders.pkl'): joblib.load raises when the
\* file is absent, before anything is assigned
LoadEncoders ==
    /\ stages' = <<>>
    /\ IF ~disk.enc
       THEN /\ result' = [op |-> "load_encoders", status |-> "FileNotFoundError",
                          input |-> NoFrame, X |-> NoFrame]
            /\ UNCHANGED <<label_encoders, feature_names, is_fitted, fit_rows>>
       ELSE /\ label_encoders' = disk.encoders
            /\ fit_rows' = {}
            /\ feature_names' = IF disk.fn THEN disk.features ELSE feature_names
            /\ is_fitted' = TRUE
            /\ result' = [op |-> "load_encoders", status |-> "ok",
                          input |-> NoFrame, X |-> NoFrame]
    /\ UNCHANGED <<disk, not_pre>>

----------------------------------------------------------------------------
(* The batches handed to the pipeline                                       *)

\* the sample record of src/tests/test_model.py (setup_method), with the
\* fractional fields rounded to integers
SampleRecord ==
    [kitchen_area |-> IntC(10), bath_area |-> IntC(5), other_area |-> IntC(50),
     gas |-> Str("Yes"), hot_water |-> Str("Yes"), central_heating |-> Str("Yes"),
     extra_area |-> IntC(10), extra_area_count |-> IntC(1), year |-> IntC(2010),
     ceil_height |-> IntC(3), floor_max |-> IntC(10), floor |-> IntC(5),
     total_area |-> IntC(65), bath_count |-> IntC(1),
     extra_area_type_name |-> Str("balcony"), district_name |-> Str("Centralnyj"),
     rooms_count |-> IntC(3)]

OtherRecord ==
    [SampleRecord EXCEPT !["total_area"] = IntC(40), !["rooms_count"] = IntC(0),
                         !["gas"] = Str("No"), !["district_name"] = Str("Nevskij"),
                         !["floor"] = IntC(1)]
LoggiaRecord ==
    [OtherRecord EXCEPT !["extra_area_type_name"] = Str("loggia"),
                        !["total_area"] = IntC(30)]
NoAreaRecord == [SampleRecord EXCEPT !["total_area"] = NaN]
NoGasRecord == [SampleRecord EXCEPT !["gas"] = NaN]
UnseenRecord == [SampleRecord EXCEPT !["district_name"] = Str("Atlantis")]

\* a RangeIndex frame with the columns `layout`; a column the record lacks
\* (the target, a row number, an unknown column) holds `filler`
MakeFrame(layout, recs, filler) ==
    [cols |-> layout,
     rows |-> [i \in 1..Len(recs) |->
                 [c \in Range(layout) |->
                     IF c \in DOMAIN recs[i] THEN recs[i][c] ELSE IntC(filler + i)]],
     index |-> [i \in 1..Len(recs) |-> i - 1]]

Reverse(s) == [i \in 1..Len(s) |-> s[Len(s) + 1 - i]]

\* training data: the record fields plus the target, read from a CSV file
TrainLayout == ORIGINAL_FEATURES \o <<"price">>
IndexedTrainLayout == <<"index">> \o ORIGINAL_FEATURES \o <<"price">>

FitBatches ==
    {MakeFrame(TrainLayout,
               <<SampleRecord, OtherRecord, NoAreaRecord, NoGasRecord>>, 100),
     MakeFrame(IndexedTrainLayout, <<OtherRecord, LoggiaRecord>>, 100),
     MakeFrame(TrainLayout, <<UnseenRecord, SampleRecord, LoggiaRecord>>, 100)}

\* inference data: any column order, unknown columns, absent record fields
ShuffledLayout == <<"index", "lot_id">> \o Reverse(ORIGINAL_FEATURES)
PartialLayout ==
    <<"lot_id">> \o SelectSeq(Reverse(ORIGINAL_FEATURES),
                             LAMBDA c : c \notin {"year", "bath_count", "hot_water"})

MaxRows == 2

TransformRecords == {SampleRecord, NoAreaRecord, NoGasRecord, UnseenRecord}

OneRowBatches ==
    {MakeFrame(layout, <<r>>, 0) :
        layout \in {ORIGINAL_FEATURES, ShuffledLayout, PartialLayout},
        r \in TransformRecords}

TransformBatches ==
    {MakeFrame(ORIGINAL_FEATURES, recs, 0) :
        recs \in UNION {[1..k -> TransformRecords] : k \in 1..MaxRows}}
    \cup OneRowBatches

\* the frames handed to a DataCleaner: raw CSV rows, with missing cells and
\* cells that do not read as numbers
CleanRecords ==
    {SampleRecord, OtherRecord, LoggiaRecord, NoAreaRecord, NoGasRecord, UnseenRecord,
     [SampleRecord EXCEPT !["total_area"] = Str("n/a")],
     [OtherRecord EXCEPT !["total_area"] = Str("65")],
     [OtherRecord EXCEPT !["year"] = Str("unknown")],
     [LoggiaRecord EXCEPT !["year"] = NaN]}
CleanBatches ==
    {MakeFrame(TrainLayout, recs, 0) :
        recs \in UNION {[1..k -> CleanRecords] : k \in 1..MaxRows}}

\* DataCleaner(df).clean()
CleanerClean ==
    \E b \in CleanBatches :
        /\ result' = [op |-> "clean", status |-> clean(b).status, input |-> b,
                      X |-> clean(b).df]
        /\ stages' = <<"missing", "duplicates", "outliers", "types">>
        /\ UNCHANGED <<label_encoders, feature_names, is_fitted, fit_rows, disk, not_pre>>

FitTransform == \E b \in FitBatches : FitTransformOf(b)
Transform == \E b \in TransformBatches : TransformOf(b)
TransformOne == \E b \in OneRowBatches : TransformOf(b)

FEIdle == fe_in = NoFrame /\ fe_out = [done |-> FALSE, df |-> NoFrame]

PreInit == PreIdle /\ FEIdle /\ TrainIdle

\* one pipeline object in a process: fitted, then used for inference
PreNext ==
    \/ PreNew
    \/ FitTransform
    \/ Transform

SpecPre == PreInit /\ [][PreNext]_vars

\* the pipeline with its artifacts: the training script fits and saves, the
\* prediction script and the API load and transform
PersistNext ==
    \/ PreNew
    \/ FitTransform
    \/ TransformOne
    \/ SaveEncoders
    \/ SaveFeatureNames
    \/ LoadEncoders

SpecPersist == PreInit /\ [][PersistNext]_vars

\* a DataCleaner on its own, as the validation and EDA scripts use it
CleanNext ==
    \/ CleanerClean
    \/ PreNew

SpecClean == PreInit /\ [][CleanNext]_vars

----------------------------------------------------------------------------
(* Properties of the preprocessing pipeline                                 *)

LastRows == RowPairs(result.input, result.X)
TransformOk == result.op = "transform" /\ result.status = "ok"

\* C1: a fitted pipeline's transform returns a frame whose column list is
\* feature_names, in that order, whatever the column order of the input, with
\* extra columns dropped and absent expected columns added
C1_SchemaStability ==
    TransformOk =>
        /\ result.X.cols = feature_names
        /\ \A j \in 1..Len(result.X.rows) : DOMAIN result.X.rows[j] = Range(feature_names)

\* a transform of a batch with an unknown column, without an expected column
\* and in another column order than the frozen one
C1_Witness ==
    /\ TransformOk
    /\ \E c \in Range(result.input.cols) : c \notin Range(feature_names)
    /\ \E c \in Range(feature_names) :
          /\ c \notin Range(result.input.cols)
          /\ \A j \in 1..Len(result.X.rows) : result.X.rows[j][c] = IntC(0)
    /\ \E i, j \in 1..Len(result.input.cols) :
          /\ i < j
          /\ \E m, n \in 1..Len(feature_names) :
                m > n /\ feature_names[m] = result.input.cols[i]
                      /\ feature_names[n] = result.input.cols[j]

\* C2: a row of the fit_transform batch, transformed again in any batch, gets
\* the feature vector fit_transform gave it, also when it has a missing value
C2_FitTransformAgree ==
    TransformOk =>
        \A p \in fit_rows : \A q \in LastRows : p.raw = q.raw => p.vec = q.vec

\* C3: two transform calls on one fitted pipeline give a record they both
\* contain the same feature vector, whatever the other rows of the batches
C3_Determinism ==
    [][(TransformOk /\ result'.op = "transform" /\ result'.status = "ok") =>
          \A p \in LastRows : \A q \in RowPairs(result'.input, result'.X) :
              p.raw = q.raw => p.vec = q.vec]_vars

\* C4: transform on a pipeline that is not fitted raises the not-fitted error
\* before any step runs and changes nothing of the pipeline
C4_NotFitted ==
    [][(result'.op = "transform" /\ ~is_fitted) =>
          /\ result'.status = "NotFittedError"
          /\ stages' = <<>>
          /\ UNCHANGED <<label_encoders, feature_names, is_fitted, disk>>]_vars

C4_Witness == result.op = "transform" /\ result.status = "NotFittedError"

\* the rows of the last transform whose value of column c is a string the
\* fitted encoder of c has not seen
UnseenAt(c) ==
    {j \in 1..Len(result.X.rows) :
        LET raw == result.input.rows[result.X.index[j] + 1]
        IN  /\ c \in DOMAIN raw
            /\ raw[c].k = "str"
            /\ raw[c].s \notin Range(label_encoders[c])}

\* C6: encoding (fit = false) a value never seen at fit does not raise and
\* gives the code of the first class of the field's vocabulary, a code in [0, k)
C6_UnseenCategory ==
    result.op = "transform" =>
        /\ result.status # "IndexError"
        /\ result.status = "ok" =>
              \A c \in Range(CATEGORICAL_FEATURES) \cap DOMAIN label_encoders
                       \cap Range(feature_names) :
                  \A j \in UnseenAt(c) :
                      /\ result.X.rows[j][c]
                            = IntC(LabelCode(label_encoders[c], label_encoders[c][1]))
                      /\ result.X.rows[j][c].n \in 0..(Len(label_encoders[c]) - 1)

\* an unseen district encoded against a vocabulary of more than one class
C6_Witness ==
    /\ TransformOk
    /\ "district_name" \in DOMAIN label_encoders
    /\ "district_name" \in Range(feature_names)
    /\ Len(label_encoders["district_name"]) > 1
    /\ UnseenAt("district_name") # {}

----------------------------------------------------------------------------
(* Feature engineering of one record: FeatureEngineer(df).engineer_all()    *)

\* the values the varied fields of a record are drawn from
AreaValues == {0, 65}
KitchenValues == {0, 10}
ExtraValues == {0, 10}
RoomValues == {0, 3}
FloorMaxValues == {0, 10}
FloorValues == {1, 5, 10}

FERecords ==
    {[SampleRecord EXCEPT !["total_area"] = IntC(ta), !["kitchen_area"] = IntC(ka),
                          !["extra_area"] = IntC(ea), !["rooms_count"] = IntC(rc),
                          !["floor_max"] = IntC(fm), !["floor"] = IntC(fl)] :
        ta \in AreaValues, ka \in KitchenValues, ea \in ExtraValues,
        rc \in RoomValues, fm \in FloorMaxValues, fl \in FloorValues}

OneRowFrame(r) == [cols |-> ORIGINAL_FEATURES, rows |-> <<r>>, index |-> <<0>>]

\* a frame that already carries derived columns holding other values
StaleFrame(r) ==
    SetCol(SetCol(OneRowFrame(r), "kitchen_ratio", <<IntC(99)>>),
           "building_age", <<IntC(7)>>)
FEFrames ==
    {OneRowFrame(r) : r \in FERecords} \cup {StaleFrame(SampleRecord), StaleFrame(OtherRecord)}

FEInit ==
    /\ fe_in \in FEFrames
    /\ fe_out = [done |-> FALSE, df |-> NoFrame]
    /\ PreIdle
    /\ TrainIdle

\* FeatureEngineer(df): a new engineer over another record
FENew ==
    /\ fe_in' \in FEFrames
    /\ fe_out' = [done |-> FALSE, df |-> NoFrame]
    /\ UNCHANGED not_fe

\* engineer_all(): the constructor copied df, the caller's frame is untouched
FEEngineerAll ==
    /\ ~fe_out.done
    /\ fe_out' = [done |-> TRUE, df |-> engineer_all(fe_in)]
    /\ UNCHANGED <<fe_in, not_fe>>

\* FeatureEngineer(df).engineer_all() on the frame the last call returned
FEEngineerAgain ==
    /\ fe_out.done
    /\ fe_in' = fe_out.df
    /\ fe_out' = [done |-> TRUE, df |-> engineer_all(fe_out.df)]
    /\ UNCHANGED not_fe

FENext == FENew \/ FEEngineerAll \/ FEEngineerAgain

SpecFE == FEInit /\ [][FENext]_vars

\* C5: feature engineering on a record with total_area = 0, floor_max = 0 or
\* rooms_count = 0 completes and every derived value is finite (not NaN, not
\* infinite)
C5_DivisionSafety ==
    fe_out.done =>
        \A c \in DerivedColumns :
            HasCol(fe_out.df, c) => IsFinite(fe_out.df.rows[1][c])

----------------------------------------------------------------------------
(* Training and serving: the calls made on the trainers, the pipeline and   *)
(* the API process                                                          *)

\* the model types a caller asks for; random_forest is not supported
RequestedTypes == KnownTypes \cup {"random_forest"}
EnsembleRequests ==
    {<<"xgboost", "lightgbm", "catboost">>, <<"xgboost", "lightgbm">>, <<"catboost">>}
PipelineRequests ==
    {<<"xgboost", "lightgbm", "catboost", "ensemble">>,
     <<"xgboost", "lightgbm", "ensemble">>,
     <<"xgboost", "catboost">>}
\* the members whose fit raises during one training call
FitFailures == {{}, {"catboost"}, {"xgboost", "lightgbm"}}

Called(op, status) == [NoCall EXCEPT !.op = op, !.status = status]

\* trainer = ModelTrainer(model_type)
MTNew ==
    \E t \in RequestedTypes :
        /\ mt' = ModelTrainer(t)
        /\ call' = Called("ModelTrainer", "ok")
        /\ UNCHANGED <<ens, pipe, models_dir, api, ev, inflight, not_train>>

\* trainer.build_model()
MTBuildModel ==
    /\ mt.exists
    /\ mt' = build_model(mt).self
    /\ call' = Called("build_model", build_model(mt).status)
    /\ UNCHANGED <<ens, pipe, models_dir, api, ev, inflight, not_train>>

\* trainer.train(X_train, y_train)
MTTrain ==
    \E data_raises, has_X_val, has_y_val \in BOOLEAN :
        LET fit == fit_settings(mt.model_type, has_X_val, has_y_val)
            r == train(mt, data_raises \/ fit.raises)
        IN  /\ mt.exists
            /\ mt' = r.self
            /\ call' = [Called("train", r.status) EXCEPT
                           !.request = <<has_X_val, has_y_val>>,
                           !.results = <<fit>>]
            /\ UNCHANGED <<ens, pipe, models_dir, api, ev, inflight, not_train>>

\* trainer.cross_validate(X, y)
MTCrossValidate ==
    \E cv_raises \in BOOLEAN :
        /\ mt.exists
        /\ mt' = cross_validate(mt, cv_raises).self
        /\ call' = Called("cross_validate", cross_validate(mt, cv_raises).status)
        /\ UNCHANGED <<ens, pipe, models_dir, api, ev, inflight, not_train>>

\* trainer.predict(X): self.model.predict runs whenever self.model is not None
MTPredict ==
    /\ mt.exists
    /\ call' = [Called("ModelTrainer.predict", ModelTrainer_predict(mt)) EXCEPT
                   !.regressor = mt.model # "None"]
    /\ UNCHANGED <<mt, ens, pipe, models_dir, api, ev, inflight, not_train>>

\* ensemble = EnsembleTrainer(model_types)
EnsNew ==
    \E model_types \in EnsembleRequests :
        /\ ens' = EnsembleTrainer(model_types)
        /\ call' = Called("EnsembleTrainer", "ok")
        /\ UNCHANGED <<mt, pipe, models_dir, api, ev, inflight, not_train>>

\* ensemble.train_all(X_train, y_train, X_val, y_val)
EnsTrainAll ==
    \E bad \in FitFailures :
        LET r == train_all(ens, bad)
        IN  /\ ens.exists
            /\ ens' = r.self
            /\ call' = [Called("train_all", r.status) EXCEPT !.raised = r.raised]
            /\ UNCHANGED <<mt, pipe, models_dir, api, ev, inflight, not_train>>

\* ensemble.optimize_weights(X_val, y_val, method)
EnsOptimizeWeights ==
    \E method \in {"grid_search", "equal"}, y_val \in YVals :
        LET r == optimize_weights(ens, y_val, method)
        IN  /\ ens.exists
            /\ ens' = r.self
            /\ call' = [Called("optimize_weights", r.status) EXCEPT
                           !.request = <<method, y_val>>]
            /\ UNCHANGED <<mt, pipe, models_dir, api, ev, inflight, not_train>>

\* ensemble.predict(X)
EnsPredict ==
    LET r == EnsembleTrainer_predict(ens)
    IN  /\ ens.exists
        /\ call' = [Called("predict", r.status) EXCEPT
                       !.value = r.value,
                       !.regressor = \E t \in DOMAIN ens.models :
                                        ens.models[t].model # "None"]
        /\ UNCHANGED <<mt, ens, pipe, models_dir, api, ev, inflight, not_train>>

\* ensemble.save_all(MODELS_DIR)
EnsSaveAll ==
    /\ ens.exists
    /\ models_dir' = save_all(ens, models_dir)
    /\ call' = Called("save_all", "ok")
    /\ UNCHANGED <<mt, ens, pipe, api, ev, inflight, not_train>>

\* ensemble.load_all(MODELS_DIR)
EnsLoadAll ==
    LET r == load_all(ens, models_dir)
    IN  /\ ens.exists
        /\ ens' = r.self
        /\ call' = [Called("load_all", r.status) EXCEPT
                       !.missing = Range(ens.model_types) \ models_dir.members]
        /\ UNCHANGED <<mt, pipe, models_dir, api, ev, inflight, not_train>>

\* TrainingPipeline(args.models).train_all_models(X_train, y_train, X_val, y_val)
PipeTrainAllModels ==
    \E m \in PipelineRequests, bad \in FitFailures, has_val \in BOOLEAN,
       y_val \in YVals :
        LET r == train_all_models(TrainingPipeline(m), bad, has_val, y_val)
        IN  /\ pipe' = r.self
            /\ call' = [Called("train_all_models", "ok") EXCEPT !.raised = r.raised]
            /\ UNCHANGED <<mt, ens, models_dir, api, ev, inflight, not_train>>

\* pipeline.save_all_models()
PipeSaveAllModels ==
    /\ pipe.exists
    /\ models_dir' = save_all_models(pipe, models_dir)
    /\ call' = Called("save_all_models", "ok")
    /\ UNCHANGED <<mt, ens, pipe, api, ev, inflight, not_train>>

\* load_models(): the joblib.load calls in order, then the preprocessor; any
\* exception is caught and False is returned, with the globals as far as they got
RECURSIVE LoadKeys(_, _, _)
LoadKeys(keys, i, dir) ==
    IF i > Len(keys) \/ keys[i] \notin dir.members THEN {}
    ELSE {keys[i]} \cup LoadKeys(keys, i + 1, dir)

load_models(dir, encoders_present) ==
    LET members == LoadKeys(<<"xgboost", "lightgbm", "catboost">>, 1, dir)
        got_weights == members = KnownTypes /\ dir.weights.present
    IN  [ok |-> got_weights /\ encoders_present,
         models |-> members \cup (IF got_weights THEN {"weights"} ELSE {}),
         weights |-> IF got_weights THEN dir.weights.value ELSE NoneWeights,
         preprocessor |-> IF ~got_weights THEN "None"
                          ELSE IF encoders_present THEN "loaded" ELSE "unfitted"]

\* python api_app.py: load_models(), then app.run() or sys.exit(1)
ApiMain ==
    LET r == load_models(models_dir, disk.enc)
    IN  /\ api.state = "down"
        /\ api' = [state |-> IF r.ok THEN "serving" ELSE "exited", loaded |-> r.ok,
                   models |-> r.models, weights |-> r.weights,
                   preprocessor |-> r.preprocessor]
        /\ call' = [Called("load_models", IF r.ok THEN "ok" ELSE "False") EXCEPT
                       !.missing = KnownTypes \ models_dir.members]
        /\ UNCHANGED <<mt, ens, pipe, models_dir, ev, inflight, not_train>>

\* the module imported by a WSGI server: the __main__ block does not run
ApiImport ==
    /\ api.state = "down"
    /\ api' = [ApiDown EXCEPT !.state = "serving"]
    /\ call' = Called("import", "ok")
    /\ UNCHANGED <<mt, ens, pipe, models_dir, ev, inflight, not_train>>

\* the process ends: the globals are gone
ApiStop ==
    /\ api.state # "down"
    /\ api' = ApiDown
    /\ call' = Called("exit", "ok")
    /\ UNCHANGED <<mt, ens, pipe, models_dir, ev, inflight, not_train>>

\* weights.get(t, 1/3) for a dict, the plain mean otherwise
ServingWeight(w, t) == IF w.defined /\ t \in DOMAIN w.of THEN w.of[t] ELSE Num(1, 3)

\* predict_ensemble(models_dict, X) of predict.py and the ensemble branch of
\* evaluate.py, at the served row: the same expression as make_prediction
predict_ensemble(weights) ==
    SumOver([t \in KnownTypes |-> CMul(ServingWeight(weights, t), IntC(ServePred(t)))],
            KnownTypes)

\* make_prediction(data) for a record validate_input accepted
make_prediction(a) ==
    IF a.preprocessor # "loaded" THEN [status |-> "AttributeError", value |-> NaN]
    ELSE IF ~(KnownTypes \cup {"weights"} \subseteq a.models)
    THEN [status |-> "KeyError", value |-> NaN]
    ELSE [status |-> "ok",
          value |-> SumOver([t \in KnownTypes |->
                                CMul(ServingWeight(a.weights, t), IntC(ServePred(t)))],
                            KnownTypes)]

\* POST /api/predict
ApiPredict ==
    LET r == make_prediction(api)
    IN  /\ api.state = "serving"
        /\ call' = [Called("make_prediction", r.status) EXCEPT !.value = r.value]
        /\ UNCHANGED <<mt, ens, pipe, models_dir, api, ev, inflight, not_train>>

(***************************************************************************)
(* The HTTP layer (api_app.py).  A JSON document is a record [json,        *)
(* fields]: an object with its members, or null, a number, a string, an    *)
(* array.  A member value is a cell: a JSON number, a JSON string, or      *)
(* JsonNull.                                                               *)
(***************************************************************************)
JsonNull == [k |-> "none", n |-> 0, d |-> 1, s |-> ""]
NoFields == [f \in {} |-> JsonNull]
Obj(r) == [json |-> "object", fields |-> r]
NonObj(kind) == [json |-> kind, fields |-> NoFields]

required_fields ==
    <<"kitchen_area", "bath_area", "other_area", "gas", "hot_water",
      "central_heating", "extra_area", "extra_area_count", "year",
      "ceil_height", "floor_max", "floor", "total_area", "bath_count",
      "extra_area_type_name", "district_name", "rooms_count">>

valid_districts ==
    {"Centralnyj", "Petrogradskij", "Moskovskij", "Nevskij", "Krasnoselskij",
     "Vyborgskij", "Kirovskij"}

\* float(v): a number as it is, a decimal string parsed, anything else raises
python_float(v) ==
    IF v.k = "num" THEN [ok |-> TRUE, value |-> v]
    ELSE IF v.k = "str" /\ v.s \in DOMAIN FloatLiterals
    THEN [ok |-> TRUE, value |-> FloatLiterals[v.s]]
    ELSE [ok |-> FALSE, value |-> NaN]

\* int(v): a number truncated toward zero, an integer string parsed,
\* anything else (a string with a decimal point, None) raises
python_int(v) ==
    IF v.k = "num"
    THEN [ok |-> TRUE, value |-> IntC(Sign(v.n) * (Abs(v.n) \div v.d))]
    ELSE IF v.k = "str" /\ v.s \in DOMAIN FloatLiterals /\ FloatLiterals[v.s].d = 1
    THEN [ok |-> TRUE, value |-> FloatLiterals[v.s]]
    ELSE [ok |-> FALSE, value |-> NaN]

OutOf(x, lo, hi) == CLess(x, lo) \/ CLess(hi, x)
NotAmong(v, names) == ~(v.k = "str" /\ v.s \in names)

\* validate_input(data): raised is the exception that leaves the function
validate_input(data) ==
    IF data.json \in {"null", "number"}
    THEN [raised |-> "TypeError", valid |-> FALSE, message |-> ""]
    ELSE IF Range(required_fields) \ DOMAIN data.fields # {}
    THEN [raised |-> "", valid |-> FALSE, message |-> "Missing required fields"]
    ELSE IF ~python_float(data.fields.total_area).ok
    THEN [raised |-> "", valid |-> FALSE, message |-> "Invalid data type"]
    ELSE IF OutOf(python_float(data.fields.total_area).value, IntC(10), IntC(500))
    THEN [raised |-> "", valid |-> FALSE, message |-> "total_area must be between 10 and 500"]
    ELSE IF ~python_int(data.fields.year).ok
    THEN [raised |-> "", valid |-> FALSE, message |-> "Invalid data type"]
    ELSE IF OutOf(python_int(data.fields.year).value, IntC(1800), IntC(2025))
    THEN [raised |-> "", valid |-> FALSE, message |-> "year must be between 1800 and 2025"]
    ELSE IF ~python_float(data.fields.ceil_height).ok
    THEN [raised |-> "", valid |-> FALSE, message |-> "Invalid data type"]
    ELSE IF OutOf(python_float(data.fields.ceil_height).value, Num(3, 2), IntC(6))
    THEN [raised |-> "", valid |-> FALSE, message |-> "ceil_height must be between 1.5 and 6.0"]
    ELSE IF ~python_int(data.fields.rooms_count).ok
    THEN [raised |-> "", valid |-> FALSE, message |-> "Invalid data type"]
    ELSE IF OutOf(python_int(data.fields.rooms_count).value, IntC(0), IntC(10))
    THEN [raised |-> "", valid |-> FALSE, message |-> "rooms_count must be between 0 and 10"]
    ELSE IF NotAmong(data.fields.gas, {"Yes", "No"})
    THEN [raised |-> "", valid |-> FALSE, message |-> "gas must be 'Yes' or 'No'"]
    ELSE IF NotAmong(data.fields.hot_water, {"Yes", "No"})
    THEN [raised |-> "", valid |-> FALSE, message |-> "hot_water must be 'Yes' or 'No'"]
    ELSE IF NotAmong(data.fields.central_heating, {"Yes", "No"})
    THEN [raised |-> "", valid |-> FALSE, message |-> "central_heating must be 'Yes' or 'No'"]
    ELSE IF NotAmong(data.fields.district_name, valid_districts)
    THEN [raised |-> "", valid |-> FALSE, message |-> "district_name must be one of"]
    ELSE IF NotAmong(data.fields.extra_area_type_name, {"balcony", "loggia"})
    THEN [raised |-> "", valid |-> FALSE, message |-> "extra_area_type_name must be one of"]
    ELSE [raised |-> "", valid |-> TRUE, message |-> "Valid"]

\* `not data`: None and the empty object are falsy
Falsy(data) == data.json = "null" \/ (data.json = "object" /\ DOMAIN data.fields = {})

\* POST /api/predict: the response, and whether make_prediction was called
predict_single(a, data) ==
    IF Falsy(data) THEN [http |-> 400, status |-> "No JSON data provided", reached |-> FALSE]
    ELSE IF validate_input(data).raised # ""
    THEN [http |-> 500, status |-> validate_input(data).raised, reached |-> FALSE]
    ELSE IF ~validate_input(data).valid
    THEN [http |-> 400, status |-> validate_input(data).message, reached |-> FALSE]
    ELSE IF make_prediction(a).status # "ok"
    THEN [http |-> 500, status |-> make_prediction(a).status, reached |-> TRUE]
    ELSE [http |-> 200, status |-> "success", reached |-> TRUE]

\* the records a client posts to /api/predict
SingleRequests ==
    { Obj(SampleRecord), Obj(OtherRecord),
      Obj([SampleRecord EXCEPT !["kitchen_area"] = IntC(-5)]),
      Obj([SampleRecord EXCEPT !["total_area"] = Str("65")]),
      Obj([SampleRecord EXCEPT !["total_area"] = IntC(5)]),
      Obj([SampleRecord EXCEPT !["year"] = IntC(2026)]),
      Obj([SampleRecord EXCEPT !["ceil_height"] = Str("high")]),
      Obj([SampleRecord EXCEPT !["rooms_count"] = JsonNull]),
      Obj(UnseenRecord),
      Obj([f \in DOMAIN SampleRecord \ {"gas"} |-> SampleRecord[f]]),
      Obj(NoFields), NonObj("null"), NonObj("number"), NonObj("array") }

ApiPredictSingle ==
    \E data \in SingleRequests :
        /\ api.state = "serving"
        /\ call' = [Called("predict_single", predict_single(api, data).status) EXCEPT
                       !.http = predict_single(api, data).http,
                       !.reached = predict_single(api, data).reached,
                       !.request = <<data>>]
        /\ UNCHANGED <<mt, ens, pipe, models_dir, api, ev, inflight, not_train>>

BatchLimit == 1000
MaxBatch == 4

\* one entry of the results list: enumerate() counts from zero
BatchResult(a, prop, idx) ==
    [index |-> idx,
     status |-> IF validate_input(prop).valid /\ make_prediction(a).status = "ok"
                THEN "success" ELSE "error"]

CountStatus(results, status) == Cardinality({i \in DOMAIN results : results[i].status = status})

\* POST /api/predict/batch for a body whose 'properties' is the list
\* `properties`; an exception outside the per-record try ends the request
predict_batch(a, properties) ==
    IF Len(properties) = 0
    THEN [http |-> 400, status |-> "properties must be a non-empty list", results |-> <<>>]
    ELSE IF Len(properties) > BatchLimit
    THEN [http |-> 400, status |-> "Maximum 1000 properties per batch request",
          results |-> <<>>]
    ELSE IF \E i \in DOMAIN properties : validate_input(properties[i]).raised # ""
    THEN [http |-> 500, status |-> "TypeError", results |-> <<>>]
    ELSE [http |-> 200, status |-> "completed",
          results |-> [i \in DOMAIN properties |-> BatchResult(a, properties[i], i - 1)]]

\* the entries of a posted 'properties' list
BatchItems ==
    { Obj(SampleRecord), Obj([SampleRecord EXCEPT !["total_area"] = IntC(5)]),
      NonObj("null") }
BatchRequests == UNION {[1..n -> BatchItems] : n \in 0..MaxBatch}

ApiPredictBatch ==
    \E properties \in BatchRequests :
        /\ api.state = "serving"
        /\ call' = [Called("predict_batch", predict_batch(api, properties).status) EXCEPT
                       !.http = predict_batch(api, properties).http,
                       !.request = properties,
                       !.results = predict_batch(api, properties).results,
                       !.summary =
                           [total |-> Len(properties),
                            successful |-> CountStatus(predict_batch(api, properties).results,
                                                       "success"),
                            failed |-> CountStatus(predict_batch(api, properties).results,
                                                   "error")]]
        /\ UNCHANGED <<mt, ens, pipe, models_dir, api, ev, inflight, not_train>>

(***************************************************************************)
(* ModelEvaluator (evaluation.py).  y_true and y_pred are sequences of     *)
(* integers; the metrics are exact rationals.                              *)
(***************************************************************************)
CAbs(a) == IF a.k = "num" THEN Num(Abs(a.n), a.d) ELSE IF a.k = "inf" THEN Inf(1) ELSE a

\* numpy a <= t for a finite t: NaN and +inf compare False
CLe(a, t) == (a.k = "num" /\ ~CLess(t, a)) \/ (a.k = "inf" /\ a.n < 0)

\* errors / y_true at row i
relative_error(y_true, y_pred, i) ==
    CDiv(CAbs(CSub(IntC(y_true[i]), IntC(y_pred[i]))), IntC(y_true[i]))

\* the comparison turned round: the rows whose relative error exceeds t
within_pct_inverted(y_true, y_pred, t) ==
    Num(100 * Cardinality({i \in DOMAIN y_true :
                              ~CLe(relative_error(y_true, y_pred, i), t)}),
        Len(y_true))

\* (relative_errors <= t).sum() / len(y_true) * 100
within_pct(y_true, y_pred, t) ==
    Num(100 * Cardinality({i \in DOMAIN y_true : CLe(relative_error(y_true, y_pred, i), t)}),
        Len(y_true))

\* sklearn mean_absolute_percentage_error * 100: the mean of
\* |y_pred - y_true| / max(|y_true|, eps).  The value is regular + over_eps / eps:
\* the rows with y_true = 0 are divided by the machine epsilon
mean_absolute_percentage_error(y_true, y_pred) ==
    LET rows == DOMAIN y_true
        err(i) == IntC(Abs(y_pred[i] - y_true[i]))
    IN  [regular |->
             CDiv(CMul(IntC(100),
                       SumOver([i \in rows |-> IF y_true[i] = 0 THEN IntC(0)
                                               ELSE CDiv(err(i), IntC(Abs(y_true[i])))], rows)),
                  IntC(Len(y_true))),
         over_eps |->
             CDiv(CMul(IntC(100),
                       SumOver([i \in rows |-> IF y_true[i] = 0 THEN err(i) ELSE IntC(0)], rows)),
                  IntC(Len(y_true)))]

\* evaluate(y_true, y_pred); r2_float is the type r2_score returns in the
\* installed scikit-learn: (n - 1) / (n - p - 1) with p = 1 divides by zero
\* for n = 2, which raises for a Python float and gives inf/nan for numpy
evaluate(self, y_true, y_pred, r2_float) ==
    LET computed ==
            [has |-> self.metrics.has \cup
                     {"r2_score", "rmse", "mae", "mape", "mse", "within_5_pct",
                      "within_10_pct", "within_15_pct", "within_20_pct", "mean_error",
                      "std_error", "max_error", "median_error", "explained_variance"},
             within_5_pct |-> within_pct(y_true, y_pred, Num(5, 100)),
             within_10_pct |-> within_pct(y_true, y_pred, Num(10, 100)),
             mape |-> mean_absolute_percentage_error(y_true, y_pred)]
        raises == Len(y_true) - 1 - 1 = 0 /\ r2_float = "python"
    IN  [status |-> IF raises THEN "ZeroDivisionError" ELSE "ok",
         self |-> [self EXCEPT
                      !.actuals = y_true, !.predictions = y_pred,
                      !.metrics = IF raises THEN computed
                                  ELSE [computed EXCEPT
                                           !.has = computed.has \cup {"adj_r2_score"}]]]

MaxLen == 2
TrueValues == {-20, 0, 10}
PredValues == {10, 11}

\* ModelEvaluator(model_name)
EvNew ==
    /\ ev' = [NoEvaluator EXCEPT !.exists = TRUE]
    /\ call' = Called("ModelEvaluator", "ok")
    /\ UNCHANGED <<mt, ens, pipe, models_dir, api, inflight, not_train>>

EvEvaluate ==
    \E n \in 1..MaxLen, r2_float \in {"python", "numpy"} :
        \E y_true \in [1..n -> TrueValues], y_pred \in [1..n -> PredValues] :
            /\ ev.exists
            /\ ev' = evaluate(ev, y_true, y_pred, r2_float).self
            /\ call' = Called("evaluate", evaluate(ev, y_true, y_pred, r2_float).status)
            /\ UNCHANGED <<mt, ens, pipe, models_dir, api, inflight, not_train>>

\* feature_importances_ of a fitted regressor: one value per training column
TrainedImportances == <<10, 40, 30>>

\* sort_values('importance', ascending=False) on rows of distinct importance
sort_values_descending(rows) ==
    CHOOSE sorted \in [1..Len(rows) -> Range(rows)] :
        /\ Range(sorted) = Range(rows)
        /\ \A i, j \in 1..Len(rows) : i < j => sorted[i].importance > sorted[j].importance

\* get_feature_importance(feature_names, top_n); library_raises: reading
\* feature_importances_ of an estimator that was never fitted raises an error
\* that hasattr does not swallow (it depends on the library)
get_feature_importance(self, names, top_n, library_raises) ==
    IF self.model = "None" THEN [status |-> "ValueError: Model not trained", rows |-> <<>>]
    ELSE IF self.model = "built"
    THEN [status |-> IF library_raises THEN "LibraryError" ELSE "ok", rows |-> <<>>]
    ELSE IF Len(names) # Len(TrainedImportances)
    THEN [status |-> "ValueError: All arrays must be of the same length", rows |-> <<>>]
    ELSE LET importance_df ==
                 sort_values_descending(
                     [i \in 1..Len(names) |->
                         [feature |-> names[i], importance |-> TrainedImportances[i]]])
         IN  [status |-> "ok",
              rows |-> SubSeq(importance_df, 1,
                              IF top_n < Len(importance_df) THEN top_n
                              ELSE Len(importance_df))]

NameLists == {<<"total_area", "year", "floor">>, <<"total_area", "year">>, <<>>}
TopNs == {2, 20}

MTGetFeatureImportance ==
    \E names \in NameLists, top_n \in TopNs, library_raises \in BOOLEAN :
        /\ mt.exists
        /\ call' = [Called("get_feature_importance",
                           get_feature_importance(mt, names, top_n,
                                                  library_raises).status) EXCEPT
                       !.request = <<names, top_n>>,
                       !.results = get_feature_importance(mt, names, top_n,
                                                          library_raises).rows]
        /\ UNCHANGED <<mt, ens, pipe, models_dir, api, ev, inflight, not_train>>

(***************************************************************************)
(* Concurrent serving: the Flask threads run make_prediction step by step  *)
(* on the process-wide preprocessor and models.                            *)
(***************************************************************************)

\* load_models() with the DataPreprocessor it creates: models['...'] from the
\* model files, then DataPreprocessor().load_encoders(label_encoders.pkl)
ApiStartup ==
    LET r == load_models(models_dir, disk.enc)
    IN  /\ api.state = "down"
        /\ api' = [state |-> IF r.ok THEN "serving" ELSE "exited", loaded |-> r.ok,
                   models |-> r.models, weights |-> r.weights,
                   preprocessor |-> r.preprocessor]
        /\ call' = [Called("load_models", IF r.ok THEN "ok" ELSE "False") EXCEPT
                       !.missing = KnownTypes \ models_dir.members]
        /\ IF r.ok
           THEN /\ label_encoders' = disk.encoders
                /\ feature_names' = IF disk.fn THEN disk.features ELSE feature_names
                /\ is_fitted' = TRUE
           ELSE UNCHANGED <<label_encoders, feature_names, is_fitted>>
        /\ UNCHANGED <<mt, ens, pipe, models_dir, ev, inflight, fe_in, fe_out, disk,
                       result, stages, fit_rows>>

\* a cleaner working on the caller's frame itself
caller_after_clean_in_place(df) == clean(df).df
\* the frame the caller holds once DataCleaner(df).clean() has run:
\* the constructor works on df.copy()
caller_after_clean(df) == df

shared == <<label_encoders, feature_names, is_fitted, api>>
serving_frame == <<mt, ens, pipe, models_dir, ev, fe_in, fe_out, disk, result, stages,
                   fit_rows, shared>>

\* records validate_input accepts: kitchen_area is not among its checks
RequestRecords == {SampleRecord, [SampleRecord EXCEPT !["kitchen_area"] = Str("n/a")]}

\* make_prediction(data): df = pd.DataFrame([data]); preprocessor.transform(df)
\* passes the is_fitted check
ReqBegin ==
    \E t \in 1..MaxRequests, data \in RequestRecords :
        /\ api.state = "serving" /\ api.loaded
        /\ inflight[t].pc = "idle"
        /\ inflight' = [inflight EXCEPT ![t] =
               IF is_fitted
               THEN [pc |-> "clean", caller |-> MakeFrame(required_fields, <<data>>, 0),
                     df |-> MakeFrame(required_fields, <<data>>, 0), status |-> "ok"]
               ELSE [pc |-> "done", caller |-> MakeFrame(required_fields, <<data>>, 0),
                     df |-> MakeFrame(required_fields, <<data>>, 0),
                     status |-> "NotFittedError"]]
        /\ call' = Called("make_prediction: begin", "ok")
        /\ UNCHANGED serving_frame

\* cleaner = DataCleaner(df); df_clean = cleaner.clean()
ReqClean ==
    \E t \in 1..MaxRequests :
        /\ inflight[t].pc = "clean"
        /\ inflight' = [inflight EXCEPT ![t] =
               [pc |-> IF clean(inflight[t].df).status = "ok" THEN "engineer" ELSE "done",
                caller |-> caller_after_clean(inflight[t].caller),
                df |-> clean(inflight[t].df).df,
                status |-> clean(inflight[t].df).status]]
        /\ call' = Called("make_prediction: clean", clean(inflight[t].df).status)
        /\ UNCHANGED serving_frame

\* engineer = FeatureEngineer(df_clean); df_engineered = engineer.engineer_all()
ReqEngineer ==
    \E t \in 1..MaxRequests :
        /\ inflight[t].pc = "engineer"
        /\ inflight' = [inflight EXCEPT ![t].pc = "encode",
                                        ![t].df = engineer_all(inflight[t].df)]
        /\ call' = Called("make_prediction: engineer", "ok")
        /\ UNCHANGED serving_frame

\* df_encoded = self._encode_categorical(df_engineered, fit=False)
ReqEncode ==
    \E t \in 1..MaxRequests :
        /\ inflight[t].pc = "encode"
        /\ inflight' = [inflight EXCEPT ![t] =
               [pc |-> IF encode_categorical(inflight[t].df, label_encoders, FALSE).status
                              = "ok"
                       THEN "align" ELSE "done",
                caller |-> inflight[t].caller,
                df |-> encode_categorical(inflight[t].df, label_encoders, FALSE).df,
                status |-> encode_categorical(inflight[t].df, label_encoders, FALSE).status]]
        /\ label_encoders' = encode_categorical(inflight[t].df, label_encoders, FALSE).encoders
        /\ call' = Called("make_prediction: encode",
                          encode_categorical(inflight[t].df, label_encoders, FALSE).status)
        /\ UNCHANGED <<mt, ens, pipe, models_dir, ev, fe_in, fe_out, disk, result, stages,
                       fit_rows, feature_names, is_fitted, api>>

\* the drop of the non-feature columns and the alignment to feature_names
ReqAlign ==
    \E t \in 1..MaxRequests :
        /\ inflight[t].pc = "align"
        /\ inflight' = [inflight EXCEPT
               ![t].pc = "predict",
               ![t].df = align(DropCols(inflight[t].df, TransformDropped), feature_names)]
        /\ call' = Called("make_prediction: align", "ok")
        /\ UNCHANGED serving_frame

\* the three member predictions and their weighted sum
ReqPredict ==
    \E t \in 1..MaxRequests :
        /\ inflight[t].pc = "predict"
        /\ inflight' = [inflight EXCEPT ![t].pc = "done",
                                        ![t].status = make_prediction(api).status]
        /\ call' = [Called("make_prediction", make_prediction(api).status) EXCEPT
                       !.value = make_prediction(api).value]
        /\ UNCHANGED serving_frame

\* the response is sent and the thread takes the next request
ReqEnd ==
    \E t \in 1..MaxRequests :
        /\ inflight[t].pc = "done"
        /\ inflight' = [inflight EXCEPT ![t] = IdleThread]
        /\ call' = Called("make_prediction: end", inflight[t].status)
        /\ UNCHANGED serving_frame

(***************************************************************************)
(* The command line scripts: train_streamlined.py, scripts/train.py and    *)
(* scripts/evaluate.py.  Each run is a process of its own: its preprocessor *)
(* and trainers are local, what it leaves behind is the models directory   *)
(* and its exit code.                                                      *)
(***************************************************************************)
AllMembers == <<"xgboost", "lightgbm", "catboost">>


\* the data files and validation targets of the runs
ScriptBatches ==
    {MakeFrame(TrainLayout, <<SampleRecord, NoGasRecord>>, 100),
     MakeFrame(IndexedTrainLayout, <<OtherRecord, LoggiaRecord>>, 100)}
ScriptYVals == {<<10, 20>>, <<8, 24>>}
ScriptFailures == {{}, {"catboost"}}

\* STEP 2 of both training scripts: fit_transform on a new DataPreprocessor
\* (an exception of clean leaves the directory alone), then save_encoders and
\* save_json of the feature names
preprocessing_step(d, b) ==
    LET c == clean(b)
        e == encode_categorical(engineer_all(c.df), NoEncoders, TRUE)
        X == DropCols(e.df, {TARGET_COLUMN} \cup FitDropped)
    IN  IF c.status # "ok" THEN d
        ELSE [enc |-> TRUE, encoders |-> e.encoders, fn |-> TRUE, features |-> X.cols]

\* the members whose fit raises in a run: the ones the data breaks, and the
\* ones whose fit call is refused for the split the run passes
Unfit(bad, has_val) ==
    bad \cup {t \in KnownTypes : fit_settings(t, has_val, has_val).raises}

\* how main() ends: the first step that raised decides; pre: the outcome of
\* fit_transform, steps: of training and prediction, report_raises: the
\* evaluation report or a plot raises
run_outcome(pre, steps, report_raises) ==
    IF pre # "ok" THEN [exit |-> 1, stage |-> "preprocessing", status |-> pre]
    ELSE IF steps.status = "ok" /\ report_raises
    THEN [exit |-> 1, stage |-> "evaluation", status |-> "Exception"]
    ELSE IF steps.status # "ok"
    THEN [exit |-> 1, stage |-> steps.stage, status |-> steps.status]
    ELSE [exit |-> 0, stage |-> "done", status |-> "ok"]

\* STEP 4 and the prediction of STEP 5 of train_streamlined.py: train_all,
\* optimize_weights when there is a validation split, ensemble.predict(X_test)
ensemble_steps(has_val, y_val, bad) ==
    LET t == train_all(EnsembleTrainer(AllMembers), Unfit(bad, has_val))
        o == IF has_val THEN optimize_weights(t.self, y_val, "grid_search")
             ELSE [status |-> "ok", self |-> t.self]
        y == EnsembleTrainer_predict(o.self)
    IN  IF t.status # "ok" THEN [stage |-> "training", status |-> t.status, self |-> t.self]
        ELSE IF o.status # "ok"
        THEN [stage |-> "training", status |-> o.status, self |-> o.self]
        ELSE IF y.status # "ok"
        THEN [stage |-> "evaluation", status |-> y.status, self |-> o.self]
        ELSE [stage |-> "done", status |-> "ok", self |-> o.self]
ScriptModels == {<<"xgboost", "lightgbm", "catboost", "ensemble">>,
                 <<"xgboost", "lightgbm", "ensemble">>}

\* STEP 4 to 6 of scripts/train.py with --models m: train_all_models, every
\* trained model predicts, the comparison needs at least one result
pipeline_steps(m, has_val, y_val, bad) ==
    LET r == train_all_models(TrainingPipeline(m), Unfit(bad, has_val), has_val, y_val).self
        y == IF r.ensemble.exists THEN EnsembleTrainer_predict(r.ensemble).status ELSE "ok"
    IN  IF y # "ok" THEN [stage |-> "evaluation", status |-> y, self |-> r]
        ELSE IF DOMAIN r.trained_models = {} /\ ~r.ensemble.exists
        THEN [stage |-> "comparison", status |-> "KeyError", self |-> r]
        ELSE [stage |-> "done", status |-> "ok", self |-> r]
\* main() of scripts/evaluate.py with --model model on a file with the price
\* column: load_encoders, transform (cleaned, encoded: what clean and
\* _encode_categorical answer), the file <model>_model.pkl, then for
\* 'ensemble' the three member files and ensemble_weights.pkl
evaluate_main(d, dir, model, cleaned, encoded, report_raises) ==
    IF ~d.enc
    THEN [exit |-> 1, stage |-> "preprocessing", status |-> "FileNotFoundError"]
    ELSE IF cleaned # "ok"
    THEN [exit |-> 1, stage |-> "preprocessing", status |-> cleaned]
    ELSE IF encoded # "ok"
    THEN [exit |-> 1, stage |-> "preprocessing", status |-> encoded]
    ELSE IF model \notin dir.members
    THEN [exit |-> 1, stage |-> "model loading", status |-> "FileNotFoundError"]
    ELSE IF model = "ensemble" /\ ~(KnownTypes \subseteq dir.members /\ dir.weights.present)
    THEN [exit |-> 1, stage |-> "prediction", status |-> "FileNotFoundError"]
    ELSE IF report_raises
    THEN [exit |-> 1, stage |-> "evaluation", status |-> "Exception"]
    ELSE [exit |-> 0, stage |-> "done", status |-> "ok"]

EvaluatedModels == {"ensemble", "xgboost", "catboost"}

Ran(script, request, r) ==
    [Called(script, r.status) EXCEPT !.request = request, !.results = <<r.exit, r.stage>>]

\* python train_streamlined.py: main() with --val-size > 0 or not; the
\* artifacts of STEP 2 are written when fit_transform returned, the models
\* and weights in STEP 6
TrainStreamlinedMain ==
    \E b \in ScriptBatches, has_val, report_raises \in BOOLEAN, y_val \in ScriptYVals,
       bad \in ScriptFailures :
        \E t \in {ensemble_steps(has_val, y_val, bad)} :
        \E r \in {run_outcome(clean(b).status, t, report_raises)} :
            /\ disk' = preprocessing_step(disk, b)
            /\ models_dir' = IF r.exit = 0 THEN save_all(t.self, models_dir)
                             ELSE models_dir
            /\ call' = Ran("train_streamlined.py", <<has_val>>, r)
            /\ UNCHANGED <<mt, ens, pipe, api, ev, inflight, fe_in, fe_out, label_encoders,
                           feature_names, is_fitted, result, stages, fit_rows>>

\* python scripts/train.py --models m: main(), ending with save_all_models
TrainMain ==
    \E m \in ScriptModels, b \in ScriptBatches, has_val, report_raises \in BOOLEAN,
       y_val \in ScriptYVals, bad \in ScriptFailures :
        \E t \in {pipeline_steps(m, has_val, y_val, bad)} :
        \E r \in {run_outcome(clean(b).status, t, report_raises)} :
            /\ disk' = preprocessing_step(disk, b)
            /\ models_dir' = IF r.exit = 0 THEN save_all_models(t.self, models_dir)
                             ELSE models_dir
            /\ call' = Ran("train.py", <<has_val, m>>, r)
            /\ UNCHANGED <<mt, ens, pipe, api, ev, inflight, fe_in, fe_out, label_encoders,
                           feature_names, is_fitted, result, stages, fit_rows>>

\* python scripts/evaluate.py --model model
EvaluateMain ==
    \E model \in EvaluatedModels, b \in ScriptBatches, report_raises \in BOOLEAN :
        \E c \in {clean(DropCols(b, {TARGET_COLUMN}))} :
        \E f \in {IF c.status = "ok" THEN engineer_all(c.df) ELSE c.df} :
        \E r \in {evaluate_main(disk, models_dir, model, c.status,
                                encode_categorical(f, disk.encoders, FALSE).status,
                                report_raises)} :
            /\ call' = Ran("evaluate.py", <<model>>, r)
            /\ UNCHANGED <<mt, ens, pipe, api, ev, inflight, fe_in, fe_out, label_encoders,
                           feature_names, is_fitted, result, stages, fit_rows, disk,
                           models_dir>>

TrainNext ==
    \/ MTGetFeatureImportance
    \/ MTNew
    \/ MTBuildModel
    \/ MTTrain
    \/ MTCrossValidate
    \/ MTPredict
    \/ EnsPredict
    \/ EnsNew
    \/ EnsTrainAll
    \/ EnsOptimizeWeights

SpecTrain == PreInit /\ [][TrainNext]_vars

\* one ModelTrainer trained with or without a validation split
FitNext ==
    \/ MTNew
    \/ MTBuildModel
    \/ MTTrain
    \/ MTPredict
    \/ MTGetFeatureImportance

SpecFit == PreInit /\ [][FitNext]_vars

\* the command line scripts run one after another on one models directory
ScriptsNext ==
    \/ TrainStreamlinedMain
    \/ TrainMain
    \/ EvaluateMain

SpecScripts == PreInit /\ [][ScriptsNext]_vars

\* an ensemble trained and weighted on a validation split
WeightsNext ==
    \/ EnsNew
    \/ EnsTrainAll
    \/ EnsOptimizeWeights
    \/ EnsPredict

SpecWeights == PreInit /\ [][WeightsNext]_vars

\* scripts/train.py: the pipeline trains the requested models and saves them
PipelineNext ==
    \/ PipeTrainAllModels
    \/ PipeSaveAllModels

SpecPipeline == PreInit /\ [][PipelineNext]_vars

\* label_encoders.pkl and feature_names.json as a training run leaves them
TrainedArtifacts ==
    LET b == CHOOSE f \in FitBatches : Len(f.rows) = 4
        e == encode_categorical(engineer_all(clean(b).df), NoEncoders, TRUE)
    IN  [enc |-> TRUE, encoders |-> e.encoders, fn |-> TRUE,
         features |-> DropCols(e.df, {TARGET_COLUMN} \cup FitDropped).cols]

\* serving starts in a models directory with or without the encoder artifacts
ServeInit ==
    /\ PreFresh
    /\ disk \in {NoArtifacts, TrainedArtifacts}
    /\ FEIdle
    /\ TrainIdle

ServeNext ==
    \/ EnsNew
    \/ EnsTrainAll
    \/ EnsSaveAll
    \/ EnsLoadAll
    \/ EnsPredict
    \/ ApiMain
    \/ ApiImport
    \/ ApiStop
    \/ ApiPredict

SpecServe == ServeInit /\ [][ServeNext]_vars

\* the models directory as train_all and save_all of three members leave it
TrainedDir ==
    save_all(train_all(EnsembleTrainer(<<"xgboost", "lightgbm", "catboost">>), {}).self,
             EmptyDir)

\* the API process starts in a models directory with or without the
\* model files and the encoder artifacts
ApiInit ==
    /\ PreFresh
    /\ disk \in {NoArtifacts, TrainedArtifacts}
    /\ FEIdle
    /\ mt = NoTrainer
    /\ ens = NoEnsemble
    /\ pipe = NoPipeline
    /\ models_dir \in {EmptyDir, TrainedDir}
    /\ api = ApiDown
    /\ ev = NoEvaluator
    /\ inflight = NoRequests
    /\ call = NoCall

ApiNext ==
    \/ ApiMain
    \/ ApiImport
    \/ ApiStop
    \/ ApiPredictSingle
    \/ ApiPredictBatch

SpecApi == ApiInit /\ [][ApiNext]_vars

EvalNext ==
    \/ EvNew
    \/ EvEvaluate

SpecEval == PreInit /\ [][EvalNext]_vars

\* the API process and its request threads
ConcurrentNext ==
    \/ ApiStartup
    \/ ReqBegin
    \/ ReqClean
    \/ ReqEngineer
    \/ ReqEncode
    \/ ReqAlign
    \/ ReqPredict
    \/ ReqEnd

SpecConcurrent == ApiInit /\ [][ConcurrentNext]_vars

----------------------------------------------------------------------------
(* Properties of training and serving                                       *)

\* the weight mapping is defined and its values sum to 1 within 1e-6
WeightSumOk(w) ==
    /\ w.defined
    /\ LET s == SumOver(w.of, DOMAIN w.of)
       IN  s.k = "num" /\ Abs(s.n - s.d) * 1000000 <= s.d

\* C7: after construction, train_all or optimize_weights an EnsembleTrainer of
\* any size has a defined weight mapping whose values sum to 1 within 1e-6, and
\* so has the ensemble a pipeline assembled and the persisted weights artifact
C7_WeightInvariant ==
    /\ (/\ call.op \in {"EnsembleTrainer", "train_all", "optimize_weights"}
        /\ call.status = "ok") => WeightSumOk(ens.weights)
    /\ pipe.ensemble.exists => WeightSumOk(pipe.ensemble.weights)
    /\ models_dir.weights.present => WeightSumOk(models_dir.weights.value)

\* the member types a pipeline was asked to train
RequestedMembers(p) == Range(p.models_to_train) \ {"ensemble"}

\* C8: when the training of an ensemble member raises, the training call does
\* not complete normally, and no ensemble with fewer members than requested
\* is assembled, weighted or stored
C8_MemberFailurePropagates ==
    /\ (call.op = "train_all" /\ call.raised # {}) => call.status # "ok"
    /\ (/\ call.op = "train_all_models"
        /\ "ensemble" \in Range(pipe.models_to_train)
        /\ call.raised # {}) => call.status # "ok"
    /\ pipe.ensemble.exists
           => DOMAIN pipe.ensemble.models = RequestedMembers(pipe)
    /\ (ens.exists /\ call.op = "train_all" /\ call.status = "ok")
           => DOMAIN ens.models = Range(ens.model_types)
    /\ (call.op = "save_all_models" /\ pipe.ensemble.exists)
           => RequestedMembers(pipe) \subseteq models_dir.members

\* C9: loading with a member artifact absent fails, and no prediction comes
\* from an ensemble whose load did not complete
C9_LoadFailsFast ==
    /\ (call.op \in {"load_all", "load_models"} /\ call.missing # {})
           => call.status # "ok"
    /\ (call.op = "predict" /\ call.status = "ok") => ens.load # "failed"
    /\ (call.op = "make_prediction" /\ call.status = "ok") => api.loaded

\* C10: no ModelTrainer object has a model type outside xgboost, lightgbm,
\* catboost, and train never ends with the unknown-model-type error
C10_UnknownTypeAtConstruction ==
    /\ mt.exists => mt.model_type \in KnownTypes
    /\ ~(call.op = "train" /\ call.status = "ValueError: Unknown model type")

\* every requested member of the ensemble has been trained or loaded
EnsReady(e) == DOMAIN e.models = Range(e.model_types)

\* C11: predict on a ModelTrainer whose train or load has not completed
\* (model None, or only built by build_model / cross_validate), and on an
\* EnsembleTrainer whose members are not all trained or loaded, ends with the
\* trainer's own not-trained error and never reaches a regressor
C11_PredictNotFitted ==
    /\ (call.op = "ModelTrainer.predict" /\ mt.model \notin {"fitted", "loaded"})
           => /\ call.status = "ValueError: Model not trained"
              /\ ~call.regressor
    /\ (call.op = "predict" /\ ~EnsReady(ens))
           => /\ call.status = "ValueError: No models trained"
              /\ ~call.regressor

\* C12: a batch of 1 to 1000 records is answered with HTTP 200 and one
\* result per record at that record's index, and successful + failed = total
C12_BatchIsolation ==
    (call.op = "predict_batch" /\ Len(call.request) \in 1..BatchLimit)
        => /\ call.http = 200
           /\ Len(call.results) = Len(call.request)
           /\ \A i \in DOMAIN call.results : call.results[i].index = i - 1
           /\ call.summary.successful + call.summary.failed = call.summary.total

\* the rules of the data model for one request: an object with the 17
\* fields, every numeric field a non-negative number within its bounds,
\* every categorical field a string of its enumerated set
NumericFields ==
    {"kitchen_area", "bath_area", "other_area", "extra_area", "extra_area_count",
     "year", "ceil_height", "floor_max", "floor", "total_area", "bath_count",
     "rooms_count"}
Conforms(data) ==
    /\ data.json = "object"
    /\ DOMAIN data.fields = Range(required_fields)
    /\ \A f \in NumericFields : data.fields[f].k = "num" /\ data.fields[f].n >= 0
    /\ ~OutOf(data.fields.year, IntC(1800), IntC(2025))
    /\ ~OutOf(data.fields.total_area, IntC(10), IntC(500))
    /\ ~OutOf(data.fields.ceil_height, Num(3, 2), IntC(6))
    /\ ~OutOf(data.fields.rooms_count, IntC(0), IntC(10))
    /\ \A f \in {"gas", "hot_water", "central_heating"} :
           ~NotAmong(data.fields[f], {"Yes", "No"})
    /\ ~NotAmong(data.fields.district_name, valid_districts)
    /\ ~NotAmong(data.fields.extra_area_type_name, {"balcony", "loggia"})

\* C13: a request reaches make_prediction only if it satisfies every rule of
\* the data model; any other request is answered with HTTP 400
C13_ValidationGate ==
    call.op = "predict_single"
        => /\ call.reached => Conforms(call.request[1])
           /\ ~Conforms(call.request[1]) => call.http = 400

\* C14: a successful transform of n records returns n rows, the i-th row
\* coming from the i-th record
C14_RowPreservation ==
    (result.op = "transform" /\ result.status = "ok")
        => /\ Len(result.X.rows) = Len(result.input.rows)
           /\ result.X.index = [j \in 1..Len(result.input.rows) |-> j - 1]

\* C15: whenever evaluate has computed the buckets, within_10_pct >=
\* within_5_pct and both lie in [0, 100]
C15_BucketsMonotone ==
    "within_5_pct" \in ev.metrics.has
        => /\ ~CLess(ev.metrics.within_10_pct, ev.metrics.within_5_pct)
           /\ \A m \in {ev.metrics.within_5_pct, ev.metrics.within_10_pct} :
                  m.k = "num" /\ ~OutOf(m, IntC(0), IntC(100))

\* evaluate returned buckets that differ: some row is within 10% but not 5%
C15_Witness ==
    /\ call.op = "evaluate" /\ call.status = "ok"
    /\ CLess(ev.metrics.within_5_pct, ev.metrics.within_10_pct)
    /\ CLess(IntC(0), ev.metrics.within_5_pct)

\* C16: with an exact zero in y_true, evaluate ends in an error or leaves
\* MAPE and the within-X% buckets without a numeric value
C16_ZeroTrueFlagged ==
    (call.op = "evaluate" /\ \E i \in DOMAIN ev.actuals : ev.actuals[i] = 0)
        => \/ call.status # "ok"
           \/ /\ ev.metrics.within_5_pct.k # "num"
              /\ ev.metrics.within_10_pct.k # "num"
              /\ ev.metrics.mape.regular.k # "num"

\* C17: get_feature_importance never raises: it returns at most top_n rows
\* pairing names with importances in descending order, or an empty result
C17_FeatureImportanceTotal ==
    call.op = "get_feature_importance"
        => /\ call.status = "ok"
           /\ Len(call.results) <= call.request[2]
           /\ \A i, j \in DOMAIN call.results :
                  i < j => call.results[i].importance >= call.results[j].importance
           /\ \A i \in DOMAIN call.results :
                  \E k \in DOMAIN call.request[1] :
                      /\ call.results[i].feature = call.request[1][k]
                      /\ call.results[i].importance = TrainedImportances[k]

\* C18: once a transform call has succeeded on a DataPreprocessor, the next
\* operation on that object leaves every entry of label_encoders as it is
C18_FitOnce ==
    [][(result.op = "transform" /\ result.status = "ok" /\ result'.op # "init")
           => label_encoders' = label_encoders]_vars

\* C19: once the preprocessor and the ensemble are loaded, no step of any
\* request thread changes label_encoders, feature_names, is_fitted, the
\* loaded models or weights, nor the frame a caller handed in
C19_ServingReadOnly ==
    [][api.loaded
          => /\ UNCHANGED <<label_encoders, feature_names, is_fitted, api>>
             /\ \A t \in 1..MaxRequests :
                    (inflight[t].pc # "idle" /\ inflight'[t].pc # "idle")
                        => inflight'[t].caller = inflight[t].caller]_vars

\* two requests in flight at once: one has been answered with a prediction
\* while the other has its frame cleaned, engineered and is about to be encoded
C19_Witness ==
    /\ api.loaded /\ is_fitted /\ label_encoders # NoEncoders
    /\ \E t, u \in 1..MaxRequests :
           /\ inflight[t].pc = "done" /\ inflight[t].status = "ok"
           /\ inflight[u].pc = "encode"
           /\ inflight[u].df # inflight[u].caller

\* C20: the frame clean returns has no NaN in any numeric feature column
C20_NoNaNAfterClean ==
    (result.op = "clean" /\ result.status = "ok")
        => \A i \in 1..Len(result.X.rows) :
               \A c \in Range(NUMERICAL_FEATURES) \cap Range(result.X.cols) :
                   ~IsNull(result.X.rows[i][c])

\* the columns of the EngineeredFeatureSet definition
EngineeredFeatureSet ==
    {"building_age", "building_age_squared", "area_per_room", "kitchen_ratio",
     "bath_ratio", "living_area", "is_first_floor", "is_last_floor", "floor_ratio",
     "amenities_score", "volume", "has_extra_area", "extra_area_ratio",
     "rooms_floor_interaction"}

\* C21: engineer_all on a raw record returns the input columns plus the
\* EngineeredFeatureSet columns, with area_per_room = total_area/(rooms_count+1)
\* and extra_area_ratio = extra_area/(total_area+1), as engineer_features does
C21_EngineeredFeatureSet ==
    (fe_out.done /\ fe_in.cols = ORIGINAL_FEATURES)
        => /\ Range(fe_out.df.cols) = Range(fe_in.cols) \cup EngineeredFeatureSet
           /\ \A c \in {"area_per_room", "extra_area_ratio"} :
                  fe_out.df.rows[1][c] = engineer_features(fe_in).rows[1][c]

\* C22: engineer_all on a frame engineer_all returned gives that frame again:
\* the same columns, none twice, and the same values
C22_Idempotent ==
    [][(fe_out.done /\ fe_out'.done /\ fe_in' = fe_out.df) => fe_out'.df = fe_out.df]_vars

\* engineer_all has run on a frame that already held every derived column
C22_Witness ==
    /\ fe_out.done
    /\ DerivedColumns \subseteq Range(fe_in.cols)
    /\ Len(fe_out.df.cols) = Len(ORIGINAL_FEATURES) + Cardinality(DerivedColumns)

\* optimize_weights has just run a grid search over a three-member ensemble
\* whose members are all trained
GridSearched ==
    /\ call.op = "optimize_weights" /\ call.status = "ok"
    /\ call.request[1] = "grid_search"
    /\ Len(ens.model_types) = 3
    /\ DOMAIN ens.models = Range(ens.model_types)

OnGrid(w, lo, hi) == \E k \in lo..hi : w = Num(k, 10)

\* C23: every combination the grid search evaluates has w1 and w2 on the 0.1
\* grid and w3 = 1 - w1 - w2 within [0.1, 0.8], and so has the returned one
C23_WeightsOnGrid ==
    /\ \A i \in 1..Len(GridCombos) :
           /\ GridCombos[i][1] \in 1..8 /\ GridCombos[i][2] \in 1..8
           /\ GridCombos[i][3] = 10 - GridCombos[i][1] - GridCombos[i][2]
           /\ GridCombos[i][3] \in 1..8
    /\ GridSearched
           => /\ ens.weights.defined
              /\ \A t \in DOMAIN ens.weights.of : OnGrid(ens.weights.of[t], 1, 8)

\* a grid search returned weights that are not all equal
C23_Witness ==
    /\ GridSearched
    /\ \E t, u \in DOMAIN ens.weights.of : ens.weights.of[t] # ens.weights.of[u]

\* the validation R2 of combination i for the ensemble and the split of the
\* last call
ScoreOf(i) ==
    r2_score(DOMAIN ens.models, ZipWeights(ens.model_types, GridCombos[i]), call.request[2])

\* C24: the grid search returns a combination of maximal validation R2, the
\* first one in iteration order when several reach the maximum
C24_FirstMaximum ==
    GridSearched
        => \E i \in 1..Len(GridCombos) :
               /\ ens.weights = ZipWeights(ens.model_types, GridCombos[i])
               /\ \A j \in 1..Len(GridCombos) : ~CLess(ScoreOf(i), ScoreOf(j))
               /\ \A j \in 1..(i - 1) : CLess(ScoreOf(j), ScoreOf(i))

\* a grid search in which two combinations reach the maximal R2
C24_Witness ==
    /\ GridSearched
    /\ \E i, j \in 1..Len(GridCombos) :
           /\ i < j
           /\ ScoreOf(i) = ScoreOf(j)
           /\ \A k \in 1..Len(GridCombos) : ~CLess(ScoreOf(i), ScoreOf(k))

\* C25: train asks for early stopping with patience 50 exactly when X_val
\* and y_val are both supplied; without them the fit has no patience in
\* force and does not need an evaluation set
C25_EarlyStopping ==
    (call.op = "train" /\ call.status # "ValueError: Unknown model type")
        => /\ call.results[1].patience =
                  (IF call.request[1] /\ call.request[2] THEN EARLY_STOPPING_ROUNDS ELSE 0)
           /\ call.results[1].eval_set = (call.request[1] /\ call.request[2])
           /\ ~call.results[1].raises

\* the weights of an ensemble cover exactly its members
WeightsCoverMembers(e) ==
    DOMAIN e.models # {} => (e.weights.defined /\ DOMAIN e.weights.of = DOMAIN e.models)

\* C26: whenever the models mapping of an ensemble is non-empty, its weights
\* mapping is defined and has exactly the keys of models, for a stand-alone
\* EnsembleTrainer and for the ensemble a TrainingPipeline assembled
C26_WeightsCoverMembers ==
    /\ ens.exists => WeightsCoverMembers(ens)
    /\ pipe.ensemble.exists => WeightsCoverMembers(pipe.ensemble)

\* the weights the serving code applies sum to 1, and its price is the
\* weighted average EnsembleTrainer.predict computes from the same weights
ServesAsTrained(weights, price) ==
    LET trained == weighted_predict(KnownTypes, [t \in KnownTypes |-> ServePred(t)], weights)
    IN  /\ SumOver([t \in KnownTypes |-> ServingWeight(weights, t)], KnownTypes) = IntC(1)
        /\ trained.status = "ok"
        /\ trained.value = price

\* C27: for every persisted weights artifact the price the serving code
\* computes equals the weighted average of EnsembleTrainer.predict over the
\* same member predictions and weights, and the applied weights sum to 1
C27_ServingMatchesTraining ==
    /\ (call.op = "make_prediction" /\ call.status = "ok")
           => ServesAsTrained(api.weights, call.value)
    /\ (models_dir.members = KnownTypes /\ models_dir.weights.present)
           => ServesAsTrained(models_dir.weights.value,
                              predict_ensemble(models_dir.weights.value))

\* C28: a DataPreprocessor with is_fitted = true has a non-empty feature_names
\* and holds in label_encoders the encoder of every categorical feature that
\* feature_names lists, as one fit_transform leaves them
C28_FittedHasFeatures ==
    is_fitted
        => /\ feature_names # <<>>
           /\ \A c \in Range(CATEGORICAL_FEATURES) \cap Range(feature_names) :
                  c \in DOMAIN label_encoders

\* the artifacts a successful ensemble training run writes are all present
EnsembleRunArtifacts ==
    /\ KnownTypes \subseteq models_dir.members
    /\ models_dir.weights.present
    /\ disk.enc
    /\ disk.fn

\* C29: with the artifacts of a successful ensemble training run in place,
\* evaluate.py --model ensemble ends with exit code 0
C29_EvaluateEnsemble ==
    (/\ call.op = "evaluate.py"
     /\ call.request = <<"ensemble">>
     /\ call.status # "Exception"
     /\ EnsembleRunArtifacts) => call.results[1] = 0

\* C30: a training run that fails after its preprocessing step (exit code 1)
\* leaves the persisted artifacts as they were before the run
C30_FailedRunKeepsArtifacts ==
    [][(/\ call'.op \in {"train_streamlined.py", "train.py"}
        /\ call'.results[1] = 1
        /\ call'.results[2] # "preprocessing")
           => (disk' = disk /\ models_dir' = models_dir)]_vars

====
